---- MODULE Spec2Model ----
(***************************************************************************)
(* A model of glutin's EGL backend (glutin/src/api/egl.rs) and of the      *)
(* currency typestate of glutin_lighter's SplitContext                     *)
(* (glutin_lighter/src/split_context.rs).                                  *)
(*                                                                         *)
(* Spec           the currency state machine: threads, contexts and         *)
(*                surfaces, the native per-thread binding, the typestate   *)
(*                tags, the swap-interval flag of each surface,            *)
(*                destruction, and values moving between threads.          *)
(* SpecUnchecked  the same calls with treat_as_not_current and             *)
(*                treat_as_current, each value staying on its thread.      *)
(* SpecCtx        Context::new as a function of the display, the config    *)
(*                and the context request.                                 *)
(***************************************************************************)
EXTENDS Integers, Sequences, FiniteSets, TLC

VARIABLES
    cur,               \* the native binding of each thread: eglGetCurrentContext / eglGetCurrentSurface
    ctx_alive,         \* the Context instances that have not been dropped
    tag,               \* the ContextIsCurrent type parameter of each SplitContext
    holder,            \* the thread that owns each SplitContext value
    surf_alive,        \* the Surface instances that have not been dropped
    has_been_current,  \* Surface::has_been_current, the bool inside the Mutex
    mutex,             \* Surface::has_been_current, the Mutex: the thread that holds it, or 0
    pc,                \* the position of each thread: "idle", or inside Context::make_current
    call,              \* the arguments and the native calls so far of the make_current a thread is in
    last,              \* the call that returned last, or the native bind that was made last
    issued,            \* per window surface: the native eglSwapInterval calls issued for it
    ever_ok,           \* per window surface: whether a make_current call on it has returned Ok
    ok_swaps,          \* per window surface: the native eglSwapInterval calls for it that succeeded
    dpy,               \* SpecCtx, SpecCfg: the Display (egl_version, extensions)
    req,               \* SpecCtx, SpecCfg, SpecColor: the request (builder, config), and what the native calls answer; SpecLoad: whether the library loads
    res,               \* SpecCtx, SpecCfg: what Context::new or Config::new returned; SpecColor: the descriptor; SpecLoad: what each thread's calls returned
    EGL,               \* the lazy static EGL: whether it is initialized, its value, the loads made
    desc,              \* the attribute list handed last to a native call that takes one, and the call
    conn,              \* SpecDrop: the native display connection, and the native calls made on it
    owned              \* SpecDrop: per Display value, its state and the values that hold an Arc of it

currency_vars == <<cur, ctx_alive, tag, holder, surf_alive, has_been_current, mutex, pc, call,
                   last, issued, ever_ok, ok_swaps>>
ctx_vars == <<dpy, req, res, EGL, desc, conn, owned>>
vars == <<currency_vars, ctx_vars>>

----------------------------------------------------------------------------
(* Bounds of the model. *)

NumThreads == 2
NumContexts == 2
NumWindows == 1
NumPBuffers == 1
MaxSwapCalls == 2    \* native eglSwapInterval calls per surface
MaxConsumerCalls == 2    \* SpecLoad: calls of Display::new and Config::new per thread
NumDisplayValues == 2    \* SpecDrop: Display values built on the one native display
MaxOwners == 1    \* SpecDrop: values of each kind that hold an Arc of one Display value
NumErrorCodes == 6    \* SpecSwap: the eglGetError codes below CONTEXT_LOST

(* ffi::egl::NO_CONTEXT and ffi::egl::NO_SURFACE: the null handles. *)
NO_CONTEXT == 0
NO_SURFACE == 0

Threads == 1..NumThreads
Contexts == 1..NumContexts
Windows == 1..NumWindows
PBuffers == (NumWindows + 1)..(NumWindows + NumPBuffers)
Surfaces == Windows \cup PBuffers

(* T::surface_type() of a Surface<T>. *)
surface_type(s) == IF s \in Windows THEN "Window" ELSE "PBuffer"

(* The three types that instantiate IC: ContextIsCurrent::{No, Possibly,    *)
(* PossiblyAndSurfaceBound}.                                               *)
ContextIsCurrent == {"No", "Possibly", "PossiblyAndSurfaceBound"}
ContextIsCurrentYes == {"Possibly", "PossiblyAndSurfaceBound"}

----------------------------------------------------------------------------
(* The native library, as far as the code relies on it. *)

Binding(c, d, r) == [ctx |-> c, draw |-> d, read |-> r]
Neutral == Binding(NO_CONTEXT, NO_SURFACE, NO_SURFACE)

(* What eglMakeCurrent answers: EGL_TRUE, or EGL_FALSE with eglGetError     *)
(* giving EGL_CONTEXT_LOST or another code.                                *)
NativeRet == {"TRUE", "CONTEXT_LOST", "BAD_ACCESS"}

(* The binding a thread has after eglMakeCurrent(display, draw, read, ctx): *)
(* the requested one when the call succeeds; after a failed call "this, or  *)
(* no context" may be current, or "the previous context" may still be.      *)
MakeCurrentOutcomes(old, want, ret) ==
    IF ret = "TRUE" THEN {want} ELSE {old, Neutral, want}

(* The record of one native call, as kept in call and last. *)
MakeCurrentCall(b) == [fn |-> "MakeCurrent", ctx |-> b.ctx, draw |-> b.draw, read |-> b.read]
SwapIntervalCall == [fn |-> "SwapInterval", ctx |-> NO_CONTEXT, draw |-> NO_SURFACE, read |-> NO_SURFACE]
DestroyCall(c, s) == [fn |-> "Destroy", ctx |-> c, draw |-> s, read |-> s]

----------------------------------------------------------------------------
(* Context (egl.rs). *)

(* Context::check_make_current: None and Some(non-zero) are Ok; Some(0)    *)
(* maps eglGetError to ContextLost or to an OsError.                       *)
check_make_current(ret) ==
    IF ret \in {"None", "TRUE"} THEN "Ok"
    ELSE IF ret = "CONTEXT_LOST" THEN "ContextLost" ELSE "OsError"

(* Context::is_current: eglGetCurrentContext() == self.context, asked on    *)
(* thread t.                                                               *)
is_current(t, c) == cur[t].ctx = c

(* Context::make_current_surfaceless on thread t, the native call           *)
(* answering ret: what it returns, the native calls it issues and the       *)
(* bindings the thread may be left with.                                   *)
make_current_surfaceless(t, c, ret) ==
    LET want == Binding(c, NO_SURFACE, NO_SURFACE) IN
    [res   |-> check_make_current(ret),
     calls |-> <<MakeCurrentCall(want)>>,
     binds |-> MakeCurrentOutcomes(cur[t], want, ret)]

(* Context::make_not_current without the eglGetCurrentContext test: it      *)
(* unbinds whatever the thread has bound.                                   *)
make_not_current_unconditional(t, c, ret) ==
    [res   |-> check_make_current(ret),
     calls |-> <<MakeCurrentCall(Neutral)>>,
     binds |-> MakeCurrentOutcomes(cur[t], Neutral, ret)]

(* Context::make_not_current on thread t. *)
make_not_current(t, c, ret) ==
    IF cur[t].ctx = c
    THEN [res   |-> check_make_current(ret),
          calls |-> <<MakeCurrentCall(Neutral)>>,
          binds |-> MakeCurrentOutcomes(cur[t], Neutral, ret)]
    ELSE [res   |-> check_make_current("None"),
          calls |-> <<>>,
          binds |-> {cur[t]}]

----------------------------------------------------------------------------
(* The state after construction. *)

NoCall == [c |-> NO_CONTEXT, s |-> NO_SURFACE]
NoOp == [op |-> "none", t |-> 0, c |-> NO_CONTEXT, s |-> NO_SURFACE, res |-> "Ok",
         calls |-> <<>>, pre |-> Neutral, flag |-> FALSE]

(* The record of a call that has returned: what it returned, the native     *)
(* calls it issued, the binding of its thread and the surface's            *)
(* has_been_current as it found them. Context::make_current leaves a record *)
(* "make_current" once its native bind has succeeded (pre is the binding    *)
(* before the bind) and a second one when it returns (pre is the binding    *)
(* under the mutex).                                                       *)
Returned(op, t, c, s, r, calls, pre, flag) ==
    [op |-> op, t |-> t, c |-> c, s |-> s, res |-> r, calls |-> calls, pre |-> pre, flag |-> flag]

NoDisplay == [egl_version |-> <<0, 0>>, extensions |-> {}]
NoRequest == [api |-> "none"]
NoResult == [kind |-> "none", err |-> "none", created |-> FALSE, attribs |-> <<>>]

(* No attribute list has been handed to a native call. *)
NoDesc == [call |-> "none", entry |-> 0, list |-> <<>>]

(* The native display connection before any eglInitialize. *)
NoNative == [initialized |-> FALSE, terminates |-> 0, refused |-> FALSE]

(* No Display value has been built. *)
NoOwners == <<>>

(* The static EGL: not yet dereferenced; and initialized to Ok(Egl) by the   *)
(* one load that Egl::new makes.                                            *)
EglUninit == [state |-> "uninit", value |-> "none", loads |-> 0]
EglLoaded == [state |-> "done", value |-> "Ok", loads |-> 1]

(* build_lighter returns SplitContext<ContextIsCurrent::No, ..> to the       *)
(* thread that calls it; Surface::new sets has_been_current to false. Every *)
(* thread starts with nothing bound.                                       *)
Init ==
    /\ cur = [t \in Threads |-> Neutral]
    /\ ctx_alive = [c \in Contexts |-> TRUE]
    /\ tag = [c \in Contexts |-> "No"]
    /\ holder \in [Contexts -> Threads]
    /\ surf_alive = [s \in Surfaces |-> TRUE]
    /\ has_been_current = [s \in Surfaces |-> FALSE]
    /\ mutex = [s \in Surfaces |-> 0]
    /\ pc = [t \in Threads |-> "idle"]
    /\ call = [t \in Threads |-> NoCall]
    /\ last = NoOp
    /\ issued = [s \in Windows |-> 0]
    /\ ever_ok = [s \in Windows |-> FALSE]
    /\ ok_swaps = [s \in Windows |-> 0]
    /\ dpy = NoDisplay
    /\ req = NoRequest
    /\ res = NoResult
    /\ EGL = EglLoaded
    /\ desc = NoDesc
    /\ conn = NoNative
    /\ owned = NoOwners

(* A thread can call a method of a SplitContext it owns, when it is not     *)
(* inside another call.                                                    *)
Holds(t, c) == pc[t] = "idle" /\ ctx_alive[c] /\ holder[c] = t

(* A surface is borrowed by the make_current call a thread is inside. *)
Borrowed(s) == \E t \in Threads : pc[t] # "idle" /\ call[t].s = s

----------------------------------------------------------------------------
(* SplitContext (split_context.rs): the tag of the value each method        *)
(* returns, r being what the inner Context's method returned.              *)

(* make_current_surface: PossiblyAndSurfaceBound in Ok and in Err. *)
make_current_surface_tag(r) == "PossiblyAndSurfaceBound"

(* make_current_pbuffer: Ok carries SplitContext<ContextIsCurrent::Possibly>. *)
make_current_pbuffer_tag(r) == IF r = "Ok" THEN "Possibly" ELSE "PossiblyAndSurfaceBound"

make_current_surfaceless_tag(r) == IF r = "Ok" THEN "Possibly" ELSE "PossiblyAndSurfaceBound"

(* make_not_current returning ContextIsCurrent::No in Err as well. *)
make_not_current_tag_always_no(r) == "No"

make_not_current_tag(r) == IF r = "Ok" THEN "No" ELSE "PossiblyAndSurfaceBound"

(* The method of SplitContext that binds surface s, and the tag it returns. *)
make_current_op(s) ==
    IF surface_type(s) = "Window" THEN "make_current_surface" ELSE "make_current_pbuffer"
make_current_tag(s, r) ==
    IF surface_type(s) = "Window" THEN make_current_surface_tag(r) ELSE make_current_pbuffer_tag(r)

----------------------------------------------------------------------------
(* SplitContext::make_current_surface / make_current_pbuffer, through        *)
(* Context::make_current<T>. The call is up to four steps of the calling     *)
(* thread: the native bind, taking the surface's mutex, the test of the     *)
(* flag with the native eglSwapInterval, and the write of the flag.         *)

(* egl.MakeCurrent(display, surf.surface, surf.surface, self.context) and    *)
(* check_make_current(Some(ret))?: a failure returns at once.               *)
make_current_bind(t, c, s) ==
    /\ Holds(t, c)
    /\ surf_alive[s]
    /\ s \in Windows => has_been_current[s] \/ issued[s] < MaxSwapCalls
    /\ \E ret \in NativeRet :
         LET want == Binding(c, s, s)
             calls == <<MakeCurrentCall(want)>>
             r == check_make_current(ret)
         IN \E b \in MakeCurrentOutcomes(cur[t], want, ret) :
              /\ cur' = [cur EXCEPT ![t] = b]
              /\ IF r = "Ok"
                 THEN /\ pc' = [pc EXCEPT ![t] = "lock"]
                      /\ call' = [call EXCEPT ![t] = [c |-> c, s |-> s]]
                      /\ last' = Returned("make_current", t, c, s, r, calls, cur[t],
                                          has_been_current[s])
                      /\ UNCHANGED tag
                 ELSE /\ tag' = [tag EXCEPT ![c] = make_current_tag(s, r)]
                      /\ last' = Returned(make_current_op(s), t, c, s, r, calls, cur[t],
                                          has_been_current[s])
                      /\ UNCHANGED <<pc, call>>
    /\ UNCHANGED <<ctx_alive, holder, surf_alive, has_been_current, mutex,
                   issued, ever_ok, ok_swaps, ctx_vars>>

(* A lock that does not exclude: the thread enters the section at once. *)
make_current_lock_no_exclusion(t) ==
    /\ pc[t] = "lock"
    /\ mutex' = [mutex EXCEPT ![call[t].s] = t]
    /\ pc' = [pc EXCEPT ![t] = "locked"]
    /\ UNCHANGED <<cur, ctx_alive, tag, holder, surf_alive, has_been_current, call, last,
                   issued, ever_ok, ok_swaps, ctx_vars>>

(* surf.has_been_current.lock(): waits until no thread holds the mutex. *)
make_current_lock(t) ==
    /\ pc[t] = "lock"
    /\ mutex[call[t].s] = 0
    /\ mutex' = [mutex EXCEPT ![call[t].s] = t]
    /\ pc' = [pc EXCEPT ![t] = "locked"]
    /\ UNCHANGED <<cur, ctx_alive, tag, holder, surf_alive, has_been_current, call, last,
                   issued, ever_ok, ok_swaps, ctx_vars>>

(* Under the mutex, with the flag read true or the surface not a window:     *)
(* Ok(()). The guard is dropped on return.                                  *)
make_current_ok(t) ==
    LET c == call[t].c
        s == call[t].s
    IN /\ tag' = [tag EXCEPT ![c] = make_current_tag(s, "Ok")]
       /\ ever_ok' = [w \in Windows |-> ever_ok[w] \/ w = s]
       /\ last' = Returned(make_current_op(s), t, c, s, "Ok", <<MakeCurrentCall(cur[t])>>,
                           cur[t], has_been_current[s])
       /\ mutex' = [mutex EXCEPT ![s] = 0]
       /\ pc' = [pc EXCEPT ![t] = "idle"]
       /\ call' = [call EXCEPT ![t] = NoCall]
       /\ UNCHANGED <<has_been_current, issued, ok_swaps>>

(* Under the mutex, with the flag read false for a window surface:           *)
(* eglSwapInterval. EGL_FALSE returns Err, which drops the guard and leaves *)
(* the flag false; otherwise the thread goes on to write the flag.          *)
make_current_swap_interval(t) ==
    LET c == call[t].c
        s == call[t].s
    IN /\ issued' = [issued EXCEPT ![s] = @ + 1]
       /\ \E swapped \in BOOLEAN :
            IF swapped
            THEN /\ ok_swaps' = [ok_swaps EXCEPT ![s] = @ + 1]
                 /\ pc' = [pc EXCEPT ![t] = "swapped"]
                 /\ UNCHANGED <<tag, last, mutex, call>>
            ELSE /\ tag' = [tag EXCEPT ![c] = make_current_tag(s, "OsError")]
                 /\ last' = Returned(make_current_op(s), t, c, s, "OsError",
                                     <<MakeCurrentCall(cur[t]), SwapIntervalCall>>, cur[t], FALSE)
                 /\ mutex' = [mutex EXCEPT ![s] = 0]
                 /\ pc' = [pc EXCEPT ![t] = "idle"]
                 /\ call' = [call EXCEPT ![t] = NoCall]
                 /\ UNCHANGED ok_swaps
       /\ UNCHANGED <<has_been_current, ever_ok>>

(* The section that reads the flag without regard to it or to the surface   *)
(* type's being a window: eglSwapInterval on every bind of a window.        *)
make_current_locked_every_time(t) ==
    /\ pc[t] = "locked"
    /\ IF surface_type(call[t].s) = "Window"
       THEN make_current_swap_interval(t)
       ELSE make_current_ok(t)
    /\ UNCHANGED <<cur, ctx_alive, holder, surf_alive, ctx_vars>>

(* if !*has_been_current && T::surface_type() == SurfaceType::Window. *)
make_current_locked(t) ==
    /\ pc[t] = "locked"
    /\ IF ~has_been_current[call[t].s] /\ surface_type(call[t].s) = "Window"
       THEN make_current_swap_interval(t)
       ELSE make_current_ok(t)
    /\ UNCHANGED <<cur, ctx_alive, holder, surf_alive, ctx_vars>>

(* *has_been_current = true; Ok(()). The guard is dropped on return. *)
make_current_set_flag(t) ==
    /\ pc[t] = "swapped"
    /\ LET c == call[t].c
           s == call[t].s
       IN /\ has_been_current' = [has_been_current EXCEPT ![s] = TRUE]
          /\ tag' = [tag EXCEPT ![c] = make_current_tag(s, "Ok")]
          /\ ever_ok' = [ever_ok EXCEPT ![s] = TRUE]
          /\ last' = Returned(make_current_op(s), t, c, s, "Ok",
                              <<MakeCurrentCall(cur[t]), SwapIntervalCall>>, cur[t], FALSE)
          /\ mutex' = [mutex EXCEPT ![s] = 0]
    /\ pc' = [pc EXCEPT ![t] = "idle"]
    /\ call' = [call EXCEPT ![t] = NoCall]
    /\ UNCHANGED <<cur, ctx_alive, holder, surf_alive, issued, ok_swaps, ctx_vars>>

----------------------------------------------------------------------------
(* make_current_surfaceless that also relabels the context it displaces. *)
SplitContext_make_current_surfaceless_relabels(t, c) ==
    /\ Holds(t, c)
    /\ \E ret \in NativeRet :
         LET o == make_current_surfaceless(t, c, ret) IN
         \E b \in o.binds :
           /\ cur' = [cur EXCEPT ![t] = b]
           /\ tag' = [a \in Contexts |->
                        IF a = c THEN make_current_surfaceless_tag(o.res)
                        ELSE IF o.res = "Ok" /\ cur[t].ctx = a THEN "No" ELSE tag[a]]
           /\ last' = Returned("make_current_surfaceless", t, c, NO_SURFACE, o.res, o.calls,
                               cur[t], FALSE)
    /\ UNCHANGED <<ctx_alive, holder, surf_alive, has_been_current, mutex, pc, call,
                   issued, ever_ok, ok_swaps, ctx_vars>>

(* SplitContext::make_current_surfaceless. *)
SplitContext_make_current_surfaceless(t, c) ==
    /\ Holds(t, c)
    /\ \E ret \in NativeRet :
         LET o == make_current_surfaceless(t, c, ret) IN
         \E b \in o.binds :
           /\ cur' = [cur EXCEPT ![t] = b]
           /\ tag' = [tag EXCEPT ![c] = make_current_surfaceless_tag(o.res)]
           /\ last' = Returned("make_current_surfaceless", t, c, NO_SURFACE, o.res, o.calls,
                               cur[t], FALSE)
    /\ UNCHANGED <<ctx_alive, holder, surf_alive, has_been_current, mutex, pc, call,
                   issued, ever_ok, ok_swaps, ctx_vars>>

(* SplitContext::make_not_current. *)
SplitContext_make_not_current(t, c) ==
    /\ Holds(t, c)
    /\ \E ret \in NativeRet :
         LET o == make_not_current(t, c, ret) IN
         \E b \in o.binds :
           /\ cur' = [cur EXCEPT ![t] = b]
           /\ tag' = [tag EXCEPT ![c] = make_not_current_tag(o.res)]
           /\ last' = Returned("make_not_current", t, c, NO_SURFACE, o.res, o.calls,
                               cur[t], FALSE)
    /\ UNCHANGED <<ctx_alive, holder, surf_alive, has_been_current, mutex, pc, call,
                   issued, ever_ok, ok_swaps, ctx_vars>>

(* treat_as_not_current that unbinds the context when it is current. *)
treat_as_not_current_unbinds(t, c) ==
    /\ Holds(t, c)
    /\ tag' = [tag EXCEPT ![c] = "No"]
    /\ cur' = [cur EXCEPT ![t] = IF cur[t].ctx = c THEN Neutral ELSE @]
    /\ last' = Returned("treat_as_not_current", t, c, NO_SURFACE, "Ok", <<>>, cur[t], FALSE)
    /\ UNCHANGED <<ctx_alive, holder, surf_alive, has_been_current, mutex, pc, call,
                   issued, ever_ok, ok_swaps, ctx_vars>>

(* SplitContext::treat_as_not_current: a new value around the same Context. *)
treat_as_not_current(t, c) ==
    /\ Holds(t, c)
    /\ tag' = [tag EXCEPT ![c] = "No"]
    /\ last' = Returned("treat_as_not_current", t, c, NO_SURFACE, "Ok", <<>>, cur[t], FALSE)
    /\ UNCHANGED <<cur, ctx_alive, holder, surf_alive, has_been_current, mutex, pc, call,
                   issued, ever_ok, ok_swaps, ctx_vars>>

(* SplitContext::treat_as_current::<IC2>, called by the user. *)
treat_as_current(t, c, ic2) ==
    /\ Holds(t, c)
    /\ tag' = [tag EXCEPT ![c] = ic2]
    /\ last' = Returned("treat_as_current", t, c, NO_SURFACE, "Ok", <<>>, cur[t], FALSE)
    /\ UNCHANGED <<cur, ctx_alive, holder, surf_alive, has_been_current, mutex, pc, call,
                   issued, ever_ok, ok_swaps, ctx_vars>>

(* A SplitContext value of any tag moves to thread t2. *)
Send_any_tag(c, t2) ==
    /\ Holds(holder[c], c)
    /\ t2 # holder[c]
    /\ holder' = [holder EXCEPT ![c] = t2]
    /\ UNCHANGED <<cur, ctx_alive, tag, surf_alive, has_been_current, mutex, pc, call, last,
                   issued, ever_ok, ok_swaps, ctx_vars>>

(* A SplitContext value moves to thread t2. Possibly and                    *)
(* PossiblyAndSurfaceBound hold a PhantomData<*mut ()>, which is neither    *)
(* Send nor Sync: only SplitContext<ContextIsCurrent::No, ..> is Send.      *)
Send(c, t2) ==
    /\ Holds(holder[c], c)
    /\ t2 # holder[c]
    /\ tag[c] = "No"
    /\ holder' = [holder EXCEPT ![c] = t2]
    /\ UNCHANGED <<cur, ctx_alive, tag, surf_alive, has_been_current, mutex, pc, call, last,
                   issued, ever_ok, ok_swaps, ctx_vars>>

----------------------------------------------------------------------------
(* MakeCurrentGuard (make_current_guard.rs), used by the two Drop impls.    *)

(* MakeCurrentGuard::new_keep on thread t: the binding it finds. *)
new_keep(t) == cur[t]

(* MakeCurrentGuard::if_any_same_then_invalidate: whether a handle that is   *)
(* about to be destroyed is referenced by the binding the guard found.      *)
if_any_same_then_invalidate(old, draw, read, context) ==
    \/ draw # NO_SURFACE /\ old.draw = draw
    \/ read # NO_SURFACE /\ old.read = read
    \/ context # NO_CONTEXT /\ old.ctx = context

(* Dropping the guard: the binding it leaves the thread with, the neutral   *)
(* one when it was invalidated and the one it found otherwise.              *)
MakeCurrentGuard_drop(old, invalidated) == IF invalidated THEN Neutral ELSE old

----------------------------------------------------------------------------
(* Drop for Context that destroys the handle without the guard. *)
Context_drop_unguarded(t, c) ==
    /\ Holds(t, c)
    /\ last' = Returned("drop_context", t, c, NO_SURFACE, "Ok",
                        <<DestroyCall(c, NO_SURFACE)>>, cur[t], FALSE)
    /\ ctx_alive' = [ctx_alive EXCEPT ![c] = FALSE]
    /\ UNCHANGED <<cur, tag, holder, surf_alive, has_been_current, mutex, pc, call,
                   issued, ever_ok, ok_swaps, ctx_vars>>

(* Drop for Context with a guard that unbinds whatever is current. *)
Context_drop_neutralizes(t, c) ==
    /\ Holds(t, c)
    /\ cur' = [cur EXCEPT ![t] = Neutral]
    /\ last' = Returned("drop_context", t, c, NO_SURFACE, "Ok",
                        <<MakeCurrentCall(Neutral), DestroyCall(c, NO_SURFACE)>>, cur[t], FALSE)
    /\ ctx_alive' = [ctx_alive EXCEPT ![c] = FALSE]
    /\ UNCHANGED <<tag, holder, surf_alive, has_been_current, mutex, pc, call,
                   issued, ever_ok, ok_swaps, ctx_vars>>

(* impl Drop for Context, run by the thread that owns the value. *)
Context_drop(t, c) ==
    /\ Holds(t, c)
    /\ LET guard == new_keep(t)
           invalidated == if_any_same_then_invalidate(guard, NO_SURFACE, NO_SURFACE, c)
           b == MakeCurrentGuard_drop(guard, invalidated)
       IN /\ cur' = [cur EXCEPT ![t] = b]
          /\ last' = Returned("drop_context", t, c, NO_SURFACE, "Ok",
                              <<MakeCurrentCall(b), DestroyCall(c, NO_SURFACE)>>, cur[t], FALSE)
    /\ ctx_alive' = [ctx_alive EXCEPT ![c] = FALSE]
    /\ UNCHANGED <<tag, holder, surf_alive, has_been_current, mutex, pc, call,
                   issued, ever_ok, ok_swaps, ctx_vars>>

(* impl Drop for Surface<T>. Surface<T> is Send and Sync: any thread that is *)
(* not inside a call may run it, once no call borrows the surface.          *)
Surface_drop(t, s) ==
    /\ pc[t] = "idle"
    /\ surf_alive[s]
    /\ ~Borrowed(s)
    /\ LET guard == new_keep(t)
           invalidated == if_any_same_then_invalidate(guard, s, s, NO_CONTEXT)
           b == MakeCurrentGuard_drop(guard, invalidated)
       IN /\ cur' = [cur EXCEPT ![t] = b]
          /\ last' = Returned("drop_surface", t, NO_CONTEXT, s, "Ok",
                              <<MakeCurrentCall(b), DestroyCall(NO_CONTEXT, s)>>, cur[t],
                              has_been_current[s])
    /\ surf_alive' = [surf_alive EXCEPT ![s] = FALSE]
    /\ UNCHANGED <<ctx_alive, tag, holder, has_been_current, mutex, pc, call,
                   issued, ever_ok, ok_swaps, ctx_vars>>

----------------------------------------------------------------------------
(* The calls that change or destroy what is bound. *)
Steps ==
    \/ \E t \in Threads, c \in Contexts, s \in Surfaces : make_current_bind(t, c, s)
    \/ \E t \in Threads : make_current_lock(t)
    \/ \E t \in Threads : make_current_locked(t)
    \/ \E t \in Threads : make_current_set_flag(t)
    \/ \E t \in Threads, c \in Contexts : SplitContext_make_current_surfaceless(t, c)
    \/ \E t \in Threads, c \in Contexts : SplitContext_make_not_current(t, c)
    \/ \E t \in Threads, c \in Contexts : Context_drop(t, c)
    \/ \E t \in Threads, s \in Surfaces : Surface_drop(t, s)

(* The checked interface: the calls, and values moving between threads. *)
Next ==
    \/ Steps
    \/ \E c \in Contexts, t2 \in Threads : Send(c, t2)

Spec == Init /\ [][Next]_vars

(* The interface with the unchecked relabelling, each value staying on the  *)
(* thread that built it.                                                   *)
NextUnchecked ==
    \/ Steps
    \/ \E t \in Threads, c \in Contexts : treat_as_not_current(t, c)
    \/ \E t \in Threads, c \in Contexts, ic2 \in ContextIsCurrentYes : treat_as_current(t, c, ic2)

SpecUnchecked == Init /\ [][NextUnchecked]_vars

----------------------------------------------------------------------------
(* Display (egl.rs): the protocol version and the extension strings. *)

EglVersions == {<<1, 0>>, <<1, 1>>, <<1, 2>>, <<1, 3>>, <<1, 4>>, <<1, 5>>}
ExtensionNames == {"EGL_KHR_create_context", "EGL_EXT_create_context_robustness",
                   "EGL_KHR_create_context_no_error", "EGL_KHR_context_flush_control"}

(* The order of (major, minor) tuples: egl_version >= (a, b). *)
VersionGE(v, w) == v[1] > w[1] \/ (v[1] = w[1] /\ v[2] >= w[2])

(* Display::new: the extension strings are queried only when the version is *)
(* at least 1.2 and are the empty list below it.                            *)
Displays ==
    {[egl_version |-> v, extensions |-> e] :
        v \in {w \in EglVersions : VersionGE(w, <<1, 2>>)}, e \in SUBSET ExtensionNames}
    \cup {[egl_version |-> v, extensions |-> {}] :
        v \in {w \in EglVersions : ~VersionGE(w, <<1, 2>>)}}

(* Display::has_extension. *)
has_extension(d, e) == e \in d.extensions

(* Display::bind_api that lets desktop GL through from version 1.2 on, as    *)
(* it does OpenGL ES.                                                       *)
bind_api_gl_from_1_2(api, egl_version, native) ==
    IF VersionGE(egl_version, <<1, 2>>)
    THEN LET ret == IF api \in {"OpenGl", "OpenGlEs"} THEN native ELSE FALSE
         IN IF ret = FALSE THEN "OpenGlVersionNotSupported" ELSE "Ok"
    ELSE "Ok"

(* Display::bind_api that makes its tests on every version, the ones below   *)
(* 1.2 too.                                                                 *)
bind_api_on_every_version(api, egl_version, native) ==
    LET ret == IF api = "OpenGl" /\ VersionGE(egl_version, <<1, 4>>) THEN native
               ELSE IF api = "OpenGl" THEN FALSE
               ELSE IF api = "OpenGlEs" /\ VersionGE(egl_version, <<1, 2>>) THEN native
               ELSE FALSE
    IN IF ret = FALSE THEN "OpenGlVersionNotSupported" ELSE "Ok"

(* Display::bind_api, native being what eglBindAPI answers when called. *)
bind_api(api, egl_version, native) ==
    IF VersionGE(egl_version, <<1, 2>>)
    THEN LET ret == IF api = "OpenGl" /\ VersionGE(egl_version, <<1, 4>>) THEN native
                    ELSE IF api = "OpenGl" THEN FALSE
                    ELSE IF api = "OpenGlEs" /\ VersionGE(egl_version, <<1, 2>>) THEN native
                    ELSE IF api = "OpenGlEs" THEN TRUE
                    ELSE FALSE
         IN IF ret = FALSE THEN "OpenGlVersionNotSupported" ELSE "Ok"
    ELSE "Ok"

----------------------------------------------------------------------------
(* Context::new (egl.rs). *)

Apis == {"OpenGl", "OpenGlEs", "WebGl"}
GlVersions == {<<3, 3>>, <<2, 0>>}
Robustness == {"NotRobust", "NoError", "RobustNoResetNotification",
               "TryRobustNoResetNotification", "RobustLoseContextOnReset",
               "TryRobustLoseContextOnReset"}
ReleaseBehavior == {"Flush", "None"}

(* What eglCreateContext answers: a context, or null with this eglGetError. *)
CreateContextRet == {"context", "BAD_MATCH", "BAD_ATTRIBUTE", "BAD_ALLOC"}

(* conf.attribs.version and release_behavior, cb.robustness and cb.debug,    *)
(* and what the two native calls answer.                                    *)
Requests ==
    [api : Apis, version : GlVersions, robustness : Robustness, debug : BOOLEAN,
     release_behavior : ReleaseBehavior, bind_api_ret : BOOLEAN, create_ret : CreateContextRet]

(* The elements pushed to context_attributes: the ffi::egl names and the     *)
(* integers, kept apart.                                                    *)
Attr(name) == <<"attr", name>>
Val(n) == <<"val", n>>
Flags(f) == <<"flags", f>>

(* The first branch's test: version 1.5 or EGL_KHR_create_context. *)
supports_create_context(d) ==
    VersionGE(d.egl_version, <<1, 5>>) \/ has_extension(d, "EGL_KHR_create_context")

(* supports_robustness taken from the create-context capability. *)
supports_robustness_with_create_context(d) ==
    VersionGE(d.egl_version, <<1, 5>>) \/ has_extension(d, "EGL_KHR_create_context")

(* let supports_robustness = version 1.5 or EGL_EXT_create_context_robustness. *)
supports_robustness(d) ==
    VersionGE(d.egl_version, <<1, 5>>) \/ has_extension(d, "EGL_EXT_create_context_robustness")

(* match cb.robustness in the first branch: the error it returns, the        *)
(* attributes it pushes and the flags it sets.                              *)
robustness_attributes(d, robustness) ==
    LET strategy(v) == [err |-> "none",
                        attribs |-> <<Attr("CONTEXT_OPENGL_RESET_NOTIFICATION_STRATEGY"), Attr(v)>>,
                        flags |-> {"CONTEXT_OPENGL_ROBUST_ACCESS"}]
        nothing == [err |-> "none", attribs |-> <<>>, flags |-> {}]
        refused == [err |-> "RobustnessNotSupported", attribs |-> <<>>, flags |-> {}]
    IN CASE robustness = "NotRobust" -> nothing
         [] robustness = "NoError" ->
              IF has_extension(d, "EGL_KHR_create_context_no_error")
              THEN [err |-> "none", attribs |-> <<Attr("CONTEXT_OPENGL_NO_ERROR_KHR"), Val(1)>>,
                    flags |-> {}]
              ELSE nothing
         [] robustness = "RobustNoResetNotification" ->
              IF supports_robustness(d) THEN strategy("NO_RESET_NOTIFICATION") ELSE refused
         [] robustness = "TryRobustNoResetNotification" ->
              IF supports_robustness(d) THEN strategy("NO_RESET_NOTIFICATION") ELSE nothing
         [] robustness = "RobustLoseContextOnReset" ->
              IF supports_robustness(d) THEN strategy("LOSE_CONTEXT_ON_RESET") ELSE refused
         [] robustness = "TryRobustLoseContextOnReset" ->
              IF supports_robustness(d) THEN strategy("LOSE_CONTEXT_ON_RESET") ELSE nothing

(* The attributes of the version: the first branch, the OpenGL ES branch of  *)
(* version 1.3, or neither.                                                 *)
version_attributes(d, r) ==
    IF supports_create_context(d)
    THEN LET rb == robustness_attributes(d, r.robustness) IN
         [err |-> rb.err,
          attribs |-> <<Attr("CONTEXT_MAJOR_VERSION"), Val(r.version[1]),
                        Attr("CONTEXT_MINOR_VERSION"), Val(r.version[2])>>
                      \o rb.attribs
                      \o (IF r.debug /\ VersionGE(d.egl_version, <<1, 5>>)
                          THEN <<Attr("CONTEXT_OPENGL_DEBUG"), Attr("TRUE")>> ELSE <<>>)
                      \o (IF rb.flags # {}
                          THEN <<Attr("CONTEXT_FLAGS_KHR"), Flags(rb.flags)>> ELSE <<>>)]
    ELSE IF VersionGE(d.egl_version, <<1, 3>>) /\ r.api = "OpenGlEs"
    THEN [err |-> IF r.robustness \in {"RobustNoResetNotification", "RobustLoseContextOnReset"}
                  THEN "RobustnessNotSupported" ELSE "none",
          attribs |-> <<Attr("CONTEXT_CLIENT_VERSION"), Val(r.version[1])>>]
    ELSE [err |-> "none", attribs |-> <<>>]

(* match conf.attribs.release_behavior. *)
release_behavior_attributes(d, r) ==
    IF r.release_behavior = "Flush"
    THEN IF has_extension(d, "EGL_KHR_context_flush_control")
         THEN <<Attr("CONTEXT_RELEASE_BEHAVIOR_KHR"), Attr("CONTEXT_RELEASE_BEHAVIOR_FLUSH_KHR")>>
         ELSE <<>>
    ELSE <<Attr("CONTEXT_RELEASE_BEHAVIOR_KHR"), Attr("CONTEXT_RELEASE_BEHAVIOR_NONE_KHR")>>

(* What Context::new returns: Ok or the error, whether eglCreateContext was  *)
(* called, and the attribute list it was given.                             *)
ContextResult(kind, err, created, attribs) ==
    [kind |-> kind, err |-> err, created |-> created, attribs |-> attribs]

Context_new(d, r) ==
    LET bound == bind_api(r.api, d.egl_version, r.bind_api_ret)
        va == version_attributes(d, r)
        context_attributes == va.attribs \o release_behavior_attributes(d, r) \o <<Attr("NONE")>>
    IN IF bound # "Ok" THEN ContextResult("Err", bound, FALSE, <<>>)
       ELSE IF va.err # "none" THEN ContextResult("Err", va.err, FALSE, <<>>)
       ELSE IF r.create_ret = "context" THEN ContextResult("Ok", "none", TRUE, context_attributes)
       ELSE IF r.create_ret \in {"BAD_MATCH", "BAD_ATTRIBUTE"}
       THEN ContextResult("Err", "OpenGlVersionNotSupported", TRUE, context_attributes)
       ELSE ContextResult("Err", "OsError", TRUE, context_attributes)

(* The display, the config and the builder a call of Context::new is given. *)
InitCtx ==
    /\ cur = [t \in Threads |-> Neutral]
    /\ ctx_alive = [c \in Contexts |-> TRUE]
    /\ tag = [c \in Contexts |-> "No"]
    /\ holder = [c \in Contexts |-> 1]
    /\ surf_alive = [s \in Surfaces |-> TRUE]
    /\ has_been_current = [s \in Surfaces |-> FALSE]
    /\ mutex = [s \in Surfaces |-> 0]
    /\ pc = [t \in Threads |-> "idle"]
    /\ call = [t \in Threads |-> NoCall]
    /\ last = NoOp
    /\ issued = [s \in Windows |-> 0]
    /\ ever_ok = [s \in Windows |-> FALSE]
    /\ ok_swaps = [s \in Windows |-> 0]
    /\ dpy \in Displays
    /\ req \in Requests
    /\ res = NoResult
    /\ EGL = EglLoaded
    /\ desc = NoDesc
    /\ conn = NoNative
    /\ owned = NoOwners

(* The call of Context::new. *)
ContextNew ==
    /\ res = NoResult
    /\ res' = Context_new(dpy, req)
    /\ UNCHANGED <<currency_vars, dpy, req, EGL, desc, conn, owned>>

NextCtx == ContextNew

SpecCtx == InitCtx /\ [][NextCtx]_vars

----------------------------------------------------------------------------
(* Config::new (egl.rs). *)

(* Option<T>: None, Some(x). *)
None == <<>>
Some(x) == <<x>>

(* The extension strings Config::new tests. *)
ConfigExtensionNames == {"EGL_KHR_surfaceless_context", "EGL_KHR_context_flush_control",
                         "EGL_KHR_gl_colorspace"}
ConfigEglVersions == {<<1, 1>>, <<1, 2>>, <<1, 3>>, <<1, 4>>}

(* Display::new, for the displays Config::new is tried on. *)
ConfigDisplays ==
    {[egl_version |-> v, extensions |-> e] :
        v \in {w \in ConfigEglVersions : VersionGE(w, <<1, 2>>)},
        e \in SUBSET ConfigExtensionNames}
    \cup {[egl_version |-> v, extensions |-> {}] :
        v \in {w \in ConfigEglVersions : ~VersionGE(w, <<1, 2>>)}}

(* The native configs eglChooseConfig can enumerate, by config id: what      *)
(* eglGetConfigAttrib answers for MIN_SWAP_INTERVAL and MAX_SWAP_INTERVAL,  *)
(* and ALPHA_SIZE, and whether it answers at all.                           *)
NativeConfigIds == 1..4
NativeConfig(id) ==
    CASE id = 1 -> [attrib_ok |-> TRUE, min |-> 0, max |-> 0, alpha |-> 0]
      [] id = 2 -> [attrib_ok |-> TRUE, min |-> 1, max |-> 2, alpha |-> 8]
      [] id = 3 -> [attrib_ok |-> FALSE, min |-> 0, max |-> 0, alpha |-> 0]
      [] id = 4 -> [attrib_ok |-> TRUE, min |-> 0, max |-> 2, alpha |-> 8]

(* What eglChooseConfig answers: failure, or up to two distinct configs. *)
ConfigLists ==
    {<<>>} \cup {<<a>> : a \in NativeConfigIds}
           \cup {p \in NativeConfigIds \X NativeConfigIds : p[1] # p[2]}
ChooseConfigRet ==
    {[ok |-> FALSE, configs |-> <<>>]} \cup {[ok |-> TRUE, configs |-> c] : c \in ConfigLists}

(* cb.desired_swap_interval. *)
SwapIntervals == {[kind |-> "DontWait", n |-> 0], [kind |-> "Wait", n |-> 1],
                  [kind |-> "Wait", n |-> 3], [kind |-> "AdaptiveWait", n |-> 1]}

(* The answers of the native calls and of the injected conf_selector: it     *)
(* returns every config it is given, or an Err for each, or the configs of  *)
(* the display whether they were given to it or not.                        *)
ConfigNatives ==
    {[bind_api_ret |-> FALSE, choose |-> [ok |-> TRUE, configs |-> <<>>], selector |-> "all"]}
    \cup {[bind_api_ret |-> TRUE, choose |-> c, selector |-> "all"] : c \in ChooseConfigRet}
    \cup {[bind_api_ret |-> TRUE, choose |-> c, selector |-> m] :
            c \in {r \in ChooseConfigRet : r.configs # <<>>}, m \in {"errors", "unfiltered"}}

(* The ConfigBuilder fields Config::new reads; the fields left out are None. *)
ConfigBuilders ==
    [surfaceless_support : BOOLEAN,
     version : {<<"OpenGl", <<3, 3>>>>, <<"OpenGlEs", <<2, 0>>>>},
     desired_swap_interval : {None} \cup {Some(i) : i \in SwapIntervals},
     double_buffer : {None, Some(TRUE), Some(FALSE)},
     stereoscopy : BOOLEAN,
     release_behavior : ReleaseBehavior,
     srgb : {None, Some(TRUE), Some(FALSE)}]

ConfigRequests == [cb : ConfigBuilders, native : ConfigNatives]

(* No error. *)
NoError == [kind |-> "none", reasons |-> <<>>]

(* make_error!(ErrorType::NoAvailableConfig) and errors.append(..). *)
NoAvailableConfig(reasons) == [kind |-> "NoAvailableConfig", reasons |-> reasons]

(* What Config::new returns, whether eglChooseConfig and the conf_selector   *)
(* were called, and the list.                                               *)
ConfigErr(err, enumerated, selected) ==
    [kind |-> "Err", err |-> err, enumerated |-> enumerated, selected |-> selected, list |-> <<>>]
ConfigOk(list) ==
    [kind |-> "Ok", err |-> NoAvailableConfig(<<>>), enumerated |-> TRUE, selected |-> TRUE,
     list |-> list]

(* The checks without the adaptive-sync one. *)
descriptor_error_adaptive_allowed(d, cb) ==
    IF ~VersionGE(d.egl_version, <<1, 3>>) THEN NoAvailableConfig(<<>>)
    ELSE IF cb.double_buffer = Some(TRUE) THEN NoAvailableConfig(<<>>)
    ELSE IF cb.stereoscopy THEN NoAvailableConfig(<<>>)
    ELSE IF cb.release_behavior = "None" /\ ~has_extension(d, "EGL_KHR_context_flush_control")
    THEN NoAvailableConfig(<<"FlushControlNotSupported">>)
    ELSE IF cb.srgb = Some(TRUE) /\ ~has_extension(d, "EGL_KHR_gl_colorspace")
    THEN NoAvailableConfig(<<>>)
    ELSE NoError

(* The checks with the release-behavior test made first after the           *)
(* adaptive-sync one.                                                       *)
descriptor_error_flush_first(d, cb) ==
    LET desired == cb.desired_swap_interval IN
    IF desired # None /\ desired[1].kind = "AdaptiveWait"
    THEN NoAvailableConfig(<<"AdaptiveSwapControlNotSupported">>)
    ELSE IF cb.release_behavior = "None" /\ ~has_extension(d, "EGL_KHR_context_flush_control")
    THEN NoAvailableConfig(<<"FlushControlNotSupported">>)
    ELSE IF ~VersionGE(d.egl_version, <<1, 3>>) THEN NoAvailableConfig(<<>>)
    ELSE IF cb.double_buffer = Some(TRUE) THEN NoAvailableConfig(<<>>)
    ELSE IF cb.stereoscopy THEN NoAvailableConfig(<<>>)
    ELSE IF cb.srgb = Some(TRUE) /\ ~has_extension(d, "EGL_KHR_gl_colorspace")
    THEN NoAvailableConfig(<<>>)
    ELSE NoError

(* The up-front checks and the checks made while the descriptor is built,    *)
(* in the order of the code: the error returned by the first that fails,    *)
(* or NoError.                                                              *)
descriptor_error(d, cb) ==
    LET desired == cb.desired_swap_interval IN
    IF desired # None /\ desired[1].kind = "AdaptiveWait"
    THEN NoAvailableConfig(<<"AdaptiveSwapControlNotSupported">>)
    ELSE IF ~VersionGE(d.egl_version, <<1, 3>>) THEN NoAvailableConfig(<<>>)
    ELSE IF cb.double_buffer = Some(TRUE) THEN NoAvailableConfig(<<>>)
    ELSE IF cb.stereoscopy THEN NoAvailableConfig(<<>>)
    ELSE IF cb.release_behavior = "None" /\ ~has_extension(d, "EGL_KHR_context_flush_control")
    THEN NoAvailableConfig(<<"FlushControlNotSupported">>)
    ELSE IF cb.srgb = Some(TRUE) /\ ~has_extension(d, "EGL_KHR_gl_colorspace")
    THEN NoAvailableConfig(<<>>)
    ELSE NoError

(* The filter without the test against the maximum. *)
swap_interval_reason_min_only(id, n) ==
    IF ~NativeConfig(id).attrib_ok THEN "eglGetConfigAttrib failed"
    ELSE IF n < NativeConfig(id).min THEN "Desired swap interval smaller than minimum"
    ELSE "none"

(* The swap-interval filter on one config: the reason it is rejected for,    *)
(* or "none".                                                               *)
swap_interval_reason(id, n) ==
    IF ~NativeConfig(id).attrib_ok THEN "eglGetConfigAttrib failed"
    ELSE IF n < NativeConfig(id).min THEN "Desired swap interval smaller than minimum"
    ELSE IF n > NativeConfig(id).max THEN "Desired swap interval bigger than maximum"
    ELSE "none"

(* A sequence mapped by f, and the reasons other than "none" in a sequence. *)
MapSeq(f(_), seq) == [i \in 1..Len(seq) |-> f(seq[i])]
Reasons(seq) == SelectSeq(seq, LAMBDA r : r # "none")

(* The ranges that start at min whatever min is. *)
swap_interval_ranges_from_min(min, max) ==
    IF min = 0 /\ max = 0 THEN <<[kind |-> "DontWait", start |-> 0, end |-> 0]>>
    ELSE <<[kind |-> "Wait", start |-> min, end |-> max]>>

(* min..max as the code turns it into swap_interval_ranges. *)
swap_interval_ranges(min, max) ==
    IF min = 0 /\ max = 0 THEN <<[kind |-> "DontWait", start |-> 0, end |-> 0]>>
    ELSE IF min = 0 THEN <<[kind |-> "Wait", start |-> 1, end |-> max],
                           [kind |-> "DontWait", start |-> 0, end |-> 0]>>
    ELSE <<[kind |-> "Wait", start |-> min, end |-> max]>>

(* The ConfigAttribs built for a config whose attributes could be read. *)
config_attribs(cb, id) ==
    LET ranges == swap_interval_ranges(NativeConfig(id).min, NativeConfig(id).max) IN
    [version |-> cb.version,
     surfaceless_support |-> cb.surfaceless_support,
     alpha_bits |-> NativeConfig(id).alpha,
     stereoscopy |-> FALSE,
     double_buffer |-> TRUE,
     release_behavior |-> cb.release_behavior,
     srgb |-> IF cb.srgb = None THEN FALSE ELSE cb.srgb[1],
     desired_swap_interval |->
         IF cb.desired_swap_interval # None THEN cb.desired_swap_interval[1]
         ELSE IF ranges[1].kind = "DontWait" THEN [kind |-> "DontWait", n |-> 0]
         ELSE [kind |-> "Wait", n |-> ranges[1].start],
     swap_interval_ranges |-> ranges]

(* The surfaceless test that looks for no extension string. *)
surfaceless_refused_never(d, cb) == FALSE

(* cb.surfaceless_support without EGL_KHR_surfaceless_context among the      *)
(* display's extensions.                                                    *)
surfaceless_refused(d, cb) ==
    cb.surfaceless_support /\ ~has_extension(d, "EGL_KHR_surfaceless_context")

(* The doubling that leaves the srgb of the copies as it was. *)
srgb_doubling_unset(cb, configs) ==
    IF cb.srgb = None THEN configs \o configs ELSE configs

(* if cb.srgb.is_none(): a copy of every entry with srgb = true is pushed    *)
(* after the entries.                                                       *)
srgb_doubling(cb, configs) ==
    IF cb.srgb = None
    THEN configs \o MapSeq(LAMBDA e : [e EXCEPT !.attribs.srgb = TRUE], configs)
    ELSE configs

(* The end of Config::new without the test for the empty list. *)
config_result_no_empty_test(cb, reasons, configs) ==
    ConfigOk(srgb_doubling(cb, configs))

(* The end of Config::new: the errors when no config is left after the       *)
(* selector and the reading of the attributes, the list otherwise.          *)
config_result(cb, reasons, configs) ==
    IF configs = <<>>
    THEN ConfigErr(NoAvailableConfig(reasons), TRUE, TRUE)
    ELSE ConfigOk(srgb_doubling(cb, configs))

(* match desired_swap_interval { Wait(n) => n, DontWait => 0,                *)
(* AdaptiveWait(_) => unreachable!() }, in the swap-interval filter and in  *)
(* Context::make_current: the integer, or the panic of unreachable!().      *)
swap_interval_arg(si) ==
    IF si.kind = "AdaptiveWait" THEN [unreachable |-> TRUE, n |-> 0]
    ELSE IF si.kind = "DontWait" THEN [unreachable |-> FALSE, n |-> 0]
    ELSE [unreachable |-> FALSE, n |-> si.n]

(* The panic of unreachable!() in Config::new, after the enumeration. *)
ConfigPanic ==
    [kind |-> "panic", err |-> NoError, enumerated |-> TRUE, selected |-> FALSE, list |-> <<>>]

(* Config::new on display d with builder cb, nat being the native answers. *)
Config_new(d, cb, nat) ==
    LET bound == bind_api(cb.version[1], d.egl_version, nat.bind_api_ret)
        early == descriptor_error(d, cb)
        desired == cb.desired_swap_interval
        enumerated == nat.choose.configs
        filter_reasons == IF desired = None THEN <<>>
                          ELSE Reasons(MapSeq(LAMBDA id : swap_interval_reason(
                                                              id, swap_interval_arg(desired[1]).n),
                                              enumerated))
        filtered == IF desired = None THEN enumerated
                    ELSE SelectSeq(enumerated,
                                   LAMBDA id : swap_interval_reason(
                                                   id, swap_interval_arg(desired[1]).n) = "none")
        selected == IF nat.selector = "all" THEN filtered
                    ELSE IF nat.selector = "unfiltered" THEN enumerated
                    ELSE <<>>
        selector_reasons == IF nat.selector = "errors"
                            THEN MapSeq(LAMBDA id : "conf_selector", filtered)
                            ELSE <<>>
        read == SelectSeq(selected, LAMBDA id : NativeConfig(id).attrib_ok)
        read_reasons == MapSeq(LAMBDA id : "eglGetConfigAttrib failed",
                               SelectSeq(selected, LAMBDA id : ~NativeConfig(id).attrib_ok))
        configs == MapSeq(LAMBDA id : [attribs |-> config_attribs(cb, id), config_id |-> id], read)
    IN IF surfaceless_refused(d, cb)
       THEN ConfigErr([kind |-> "NotSupported", reasons |-> <<>>], FALSE, FALSE)
       ELSE IF bound # "Ok" THEN ConfigErr([kind |-> bound, reasons |-> <<>>], FALSE, FALSE)
       ELSE IF early # NoError THEN ConfigErr(early, FALSE, FALSE)
       ELSE IF ~nat.choose.ok
       THEN ConfigErr(NoAvailableConfig(<<"eglChooseConfig failed">>), TRUE, FALSE)
       ELSE IF enumerated = <<>> THEN ConfigErr(NoAvailableConfig(<<>>), TRUE, FALSE)
       ELSE IF desired # None /\ swap_interval_arg(desired[1]).unreachable THEN ConfigPanic
       ELSE IF filtered = <<>> THEN ConfigErr(NoAvailableConfig(filter_reasons), TRUE, FALSE)
       ELSE config_result(cb, filter_reasons \o selector_reasons \o read_reasons, configs)

(* The display and the request a call of Config::new is given. *)
InitCfg ==
    /\ cur = [t \in Threads |-> Neutral]
    /\ ctx_alive = [c \in Contexts |-> TRUE]
    /\ tag = [c \in Contexts |-> "No"]
    /\ holder = [c \in Contexts |-> 1]
    /\ surf_alive = [s \in Surfaces |-> TRUE]
    /\ has_been_current = [s \in Surfaces |-> FALSE]
    /\ mutex = [s \in Surfaces |-> 0]
    /\ pc = [t \in Threads |-> "idle"]
    /\ call = [t \in Threads |-> NoCall]
    /\ last = NoOp
    /\ issued = [s \in Windows |-> 0]
    /\ ever_ok = [s \in Windows |-> FALSE]
    /\ ok_swaps = [s \in Windows |-> 0]
    /\ dpy \in ConfigDisplays
    /\ req \in ConfigRequests
    /\ res = NoResult
    /\ EGL = EglLoaded
    /\ desc = NoDesc
    /\ conn = NoNative
    /\ owned = NoOwners

(* The call of Config::new. *)
ConfigNew ==
    /\ res = NoResult
    /\ res' = Config_new(dpy, req.cb, req.native)
    /\ UNCHANGED <<currency_vars, dpy, req, EGL, desc, conn, owned>>

(* The sizes Surface<PBuffer>::new is given. *)
PBufferSizes == {<<0, 4>>, <<4, 4>>}

(* assemble_desc that pushes the terminator before the pbuffer attributes. *)
assemble_desc_terminated_early(d, attribs, size) ==
    (IF attribs.srgb
     THEN <<Attr("GL_COLORSPACE_KHR"), Attr("GL_COLORSPACE_SRGB_KHR")>>
     ELSE IF has_extension(d, "EGL_KHR_gl_colorspace")
     THEN <<Attr("GL_COLORSPACE_KHR"), Attr("GL_COLORSPACE_LINEAR_KHR")>>
     ELSE <<>>)
    \o <<Attr("NONE")>>
    \o (IF size = None THEN <<>>
        ELSE <<Attr("TEXTURE_FORMAT"),
               Attr(IF size[1][1] = 0 \/ size[1][2] = 0 THEN "NO_TEXTURE"
                    ELSE IF attribs.alpha_bits > 0 THEN "TEXTURE_RGBA"
                    ELSE "TEXTURE_RGB"),
               Attr("WIDTH"), Val(size[1][1]), Attr("HEIGHT"), Val(size[1][2])>>)

(* Surface::assemble_desc for a config of display d, size being None for a   *)
(* window and Some(size) for a pbuffer.                                     *)
assemble_desc(d, attribs, size) ==
    (IF attribs.srgb
     THEN <<Attr("GL_COLORSPACE_KHR"), Attr("GL_COLORSPACE_SRGB_KHR")>>
     ELSE IF has_extension(d, "EGL_KHR_gl_colorspace")
     THEN <<Attr("GL_COLORSPACE_KHR"), Attr("GL_COLORSPACE_LINEAR_KHR")>>
     ELSE <<>>)
    \o (IF size = None THEN <<>>
        ELSE <<Attr("TEXTURE_FORMAT"),
               Attr(IF size[1][1] = 0 \/ size[1][2] = 0 THEN "NO_TEXTURE"
                    ELSE IF attribs.alpha_bits > 0 THEN "TEXTURE_RGBA"
                    ELSE "TEXTURE_RGB"),
               Attr("WIDTH"), Val(size[1][1]), Attr("HEIGHT"), Val(size[1][2])>>)
    \o <<Attr("NONE")>>

(* Surface<Window>::new and Surface<PBuffer>::new on an entry of the list    *)
(* Config::new returned: the descriptor handed to eglCreateWindowSurface or *)
(* eglCreatePbufferSurface.                                                 *)
SurfaceNew ==
    /\ res # NoResult
    /\ res.kind = "Ok"
    /\ desc = NoDesc
    /\ conn = NoNative
    /\ owned = NoOwners
    /\ \E i \in DOMAIN res.list, size \in {None} \cup {Some(z) : z \in PBufferSizes} :
          desc' = [call |-> IF size = None THEN "eglCreateWindowSurface"
                            ELSE "eglCreatePbufferSurface",
                   entry |-> i,
                   list |-> assemble_desc(dpy, res.list[i].attribs, size)]
    /\ UNCHANGED <<currency_vars, dpy, req, res, EGL, conn, owned>>

NextCfg == ConfigNew \/ SurfaceNew

SpecCfg == InitCfg /\ [][NextCfg]_vars

----------------------------------------------------------------------------
(* The life of Display values (egl.rs). Display::new returns Arc<Display>;   *)
(* every Config, Context and Surface holds a clone of the Arc; every        *)
(* Display value wraps the one EGLDisplay get_native_display returns.       *)

DisplayValues == 1..NumDisplayValues
OwnerKinds == {"Arc", "Config", "Context", "Surface"}

NoOwner == [state |-> "none", Arc |-> 0, Config |-> 0, Context |-> 0, Surface |-> 0]

(* Arc::strong_count. *)
strong_count(o) == o.Arc + o.Config + o.Context + o.Surface

(* A native call that takes the display: EGL refuses it (NOT_INITIALIZED)   *)
(* when the connection is not initialized.                                  *)
native_call(c) == IF c.initialized THEN c ELSE [c EXCEPT !.refused = TRUE]

(* Drop for Display with the call of egl.Terminate in it. *)
Display_drop_terminates(c) == [c EXCEPT !.initialized = FALSE, !.terminates = @ + 1]

(* impl Drop for Display: the body is a comment, egl.Terminate included. *)
Display_drop(c) == c

(* The native calls of the Drop impl of a value of kind k: DestroyContext,   *)
(* DestroySurface; Config and Arc have none.                                *)
drop_call(k, c) == IF k \in {"Context", "Surface"} THEN native_call(c) ELSE c

InitDrop ==
    /\ cur = [t \in Threads |-> Neutral]
    /\ ctx_alive = [c \in Contexts |-> TRUE]
    /\ tag = [c \in Contexts |-> "No"]
    /\ holder = [c \in Contexts |-> 1]
    /\ surf_alive = [s \in Surfaces |-> TRUE]
    /\ has_been_current = [s \in Surfaces |-> FALSE]
    /\ mutex = [s \in Surfaces |-> 0]
    /\ pc = [t \in Threads |-> "idle"]
    /\ call = [t \in Threads |-> NoCall]
    /\ last = NoOp
    /\ issued = [s \in Windows |-> 0]
    /\ ever_ok = [s \in Windows |-> FALSE]
    /\ ok_swaps = [s \in Windows |-> 0]
    /\ dpy = NoDisplay
    /\ req = NoRequest
    /\ res = NoResult
    /\ EGL = EglLoaded
    /\ desc = NoDesc
    /\ conn = NoNative
    /\ owned = [d \in DisplayValues |-> NoOwner]

drop_unchanged == <<currency_vars, dpy, req, res, EGL, desc>>

(* Display::new: get_egl_version calls eglInitialize, which has no effect    *)
(* on a connection that is initialized; EGL_FALSE returns Err.              *)
Display_new(d) ==
    /\ owned[d].state = "none"
    /\ \E ret \in BOOLEAN :
         IF ret \/ conn.initialized
         THEN /\ conn' = [conn EXCEPT !.initialized = TRUE]
              /\ owned' = [owned EXCEPT ![d].state = "alive", ![d].Arc = 1]
         ELSE UNCHANGED <<conn, owned>>
    /\ UNCHANGED drop_unchanged

(* Arc::clone by the user, Config::new (Arc::clone(&display), 798),          *)
(* Context::new (825) and Surface::new (1314, 1416): a new value that holds *)
(* the Arc, built from a &Arc<Display> or from a Config, with native calls  *)
(* on the display but for Arc::clone.                                       *)
Owner_new(d, k) ==
    /\ owned[d].state = "alive"
    /\ owned[d][k] < MaxOwners
    /\ IF k \in {"Arc", "Config"} THEN owned[d].Arc > 0 ELSE owned[d].Config > 0
    /\ conn' = IF k = "Arc" THEN conn ELSE native_call(conn)
    /\ owned' = IF k = "Arc" \/ conn.initialized
                THEN [owned EXCEPT ![d][k] = @ + 1]
                ELSE owned
    /\ UNCHANGED drop_unchanged

(* The drop of a value that holds the Arc: its own Drop impl and then the    *)
(* drop of its display field, which runs Drop for Display when it was the   *)
(* last one.                                                                *)
Owner_drop(d, k) ==
    /\ owned[d][k] > 0
    /\ LET o == [owned[d] EXCEPT ![k] = @ - 1]
           c == drop_call(k, conn)
       IN IF strong_count(o) = 0
          THEN /\ owned' = [owned EXCEPT ![d] = [o EXCEPT !.state = "dropped"]]
               /\ conn' = Display_drop(c)
          ELSE /\ owned' = [owned EXCEPT ![d] = o]
               /\ conn' = c
    /\ UNCHANGED drop_unchanged

NextDrop ==
    \/ \E d \in DisplayValues : Display_new(d)
    \/ \E d \in DisplayValues, k \in OwnerKinds : Owner_new(d, k)
    \/ \E d \in DisplayValues, k \in OwnerKinds : Owner_drop(d, k)

SpecDrop == InitDrop /\ [][NextDrop]_vars

----------------------------------------------------------------------------
(* Surface<Window>::swap_buffers and swap_buffers_with_damage (egl.rs). *)

EGL_FALSE == 0
EGL_TRUE == 1
CONTEXT_LOST == 12302

(* What eglGetError answers after a call that failed. *)
ErrorCodes == (CONTEXT_LOST - NumErrorCodes)..CONTEXT_LOST

(* format!("{:x}", n): the hexadecimal digits of n, the first one first. *)
RECURSIVE Hex(_)
Hex(n) == IF n < 16 THEN <<n>> ELSE Append(Hex(n \div 16), n % 16)

(* make_oserror!(OsError::Misc(format!("<name> failed with 0x{:x}", err))). *)
OsErrorMisc(name, err) == [name |-> name, hex |-> Hex(err)]
NoMessage == [name |-> "none", hex |-> <<>>]

SwapReturned(op, kind, err, msg, calls) ==
    [op |-> op, kind |-> kind, err |-> err, msg |-> msg, calls |-> calls]

(* The match on egl.GetError() as u32 after a swap call that answered 0. *)
swap_failed(op, name, err) ==
    IF err = CONTEXT_LOST
    THEN SwapReturned(op, "Err", "ContextLost", NoMessage, <<name>>)
    ELSE SwapReturned(op, "Err", "OsError", OsErrorMisc(name, err), <<name>>)

(* swap_buffers without the test of the handle. *)
swap_buffers_no_handle_test(surface, ret, err) ==
    IF ret = EGL_FALSE
    THEN swap_failed("swap_buffers", "eglSwapBuffers", err)
    ELSE SwapReturned("swap_buffers", "Ok", "none", NoMessage, <<"eglSwapBuffers">>)

(* Surface<Window>::swap_buffers; ret and err are what eglSwapBuffers and    *)
(* eglGetError answer when they are called.                                 *)
swap_buffers(surface, ret, err) ==
    IF surface = NO_SURFACE
    THEN SwapReturned("swap_buffers", "Err", "ContextLost", NoMessage, <<>>)
    ELSE IF ret = EGL_FALSE
    THEN swap_failed("swap_buffers", "eglSwapBuffers", err)
    ELSE SwapReturned("swap_buffers", "Ok", "none", NoMessage, <<"eglSwapBuffers">>)

(* Surface<Window>::swap_buffers_with_damage; loaded is                      *)
(* egl.SwapBuffersWithDamageKHR.is_loaded().                                *)
swap_buffers_with_damage(loaded, surface, ret, err) ==
    IF ~loaded
    THEN SwapReturned("swap_buffers_with_damage", "Err", "NotSupported", NoMessage, <<>>)
    ELSE IF surface = NO_SURFACE
    THEN SwapReturned("swap_buffers_with_damage", "Err", "ContextLost", NoMessage, <<>>)
    ELSE IF ret = EGL_FALSE
    THEN swap_failed("swap_buffers_with_damage", "eglSwapBuffersWithDamageKHR", err)
    ELSE SwapReturned("swap_buffers_with_damage", "Ok", "none", NoMessage,
                      <<"eglSwapBuffersWithDamageKHR">>)

(* The handle of the Surface, whether the extension's function is loaded,   *)
(* and what the native calls answer.                                        *)
SwapRequests ==
    [surface : {NO_SURFACE} \cup Windows, loaded : BOOLEAN,
     ret : {EGL_FALSE, EGL_TRUE}, err : ErrorCodes]

InitSwap ==
    /\ cur = [t \in Threads |-> Neutral]
    /\ ctx_alive = [c \in Contexts |-> TRUE]
    /\ tag = [c \in Contexts |-> "No"]
    /\ holder = [c \in Contexts |-> 1]
    /\ surf_alive = [s \in Surfaces |-> TRUE]
    /\ has_been_current = [s \in Surfaces |-> FALSE]
    /\ mutex = [s \in Surfaces |-> 0]
    /\ pc = [t \in Threads |-> "idle"]
    /\ call = [t \in Threads |-> NoCall]
    /\ last = NoOp
    /\ issued = [s \in Windows |-> 0]
    /\ ever_ok = [s \in Windows |-> FALSE]
    /\ ok_swaps = [s \in Windows |-> 0]
    /\ dpy = NoDisplay
    /\ req \in SwapRequests
    /\ res = NoResult
    /\ EGL = EglLoaded
    /\ desc = NoDesc
    /\ conn = NoNative
    /\ owned = NoOwners

Surface_swap_buffers ==
    /\ res = NoResult
    /\ res' = swap_buffers(req.surface, req.ret, req.err)
    /\ UNCHANGED <<currency_vars, dpy, req, EGL, desc, conn, owned>>

Surface_swap_buffers_with_damage ==
    /\ res = NoResult
    /\ res' = swap_buffers_with_damage(req.loaded, req.surface, req.ret, req.err)
    /\ UNCHANGED <<currency_vars, dpy, req, EGL, desc, conn, owned>>

NextSwap == Surface_swap_buffers \/ Surface_swap_buffers_with_damage

SpecSwap == InitSwap /\ [][NextSwap]_vars

----------------------------------------------------------------------------
(* Properties of destruction and of make_not_current. *)

(* C1: when a Context or a Surface that is part of the calling thread's     *)
(* binding is dropped, the thread is left with NO_CONTEXT and NO_SURFACE    *)
(* bound, whatever calls came before.                                      *)
C1_DropLeavesNeutral ==
    /\ last.op = "drop_context" /\ last.pre.ctx = last.c
          => cur[last.t] = Neutral
    /\ last.op = "drop_surface" /\ (last.pre.draw = last.s \/ last.pre.read = last.s)
          => cur[last.t] = Neutral

(* A context that was current with a surface bound has been dropped. *)
C1_Witness ==
    /\ last.op = "drop_context"
    /\ last.pre.ctx = last.c
    /\ last.pre.draw # NO_SURFACE
    /\ cur[last.t] = Neutral

(* C2: make_not_current on a context that is not current on the calling    *)
(* thread returns Ok, issues no native call and leaves the thread's         *)
(* context, draw surface and read surface as they were.                     *)
C2_NotCurrentIsNoOp ==
    last.op = "make_not_current" /\ last.pre.ctx # last.c
        => /\ last.res = "Ok"
           /\ last.calls = <<>>
           /\ cur[last.t] = last.pre

(* make_not_current has returned for a context while another one is, and    *)
(* stays, current on the thread.                                           *)
C2_Witness ==
    /\ last.op = "make_not_current"
    /\ last.pre.ctx \notin {last.c, NO_CONTEXT}
    /\ cur[last.t].ctx = last.pre.ctx
    /\ cur[last.t].draw # NO_SURFACE

(* C3: make_not_current on the context that is current on the calling       *)
(* thread issues one eglMakeCurrent with null context and null surfaces;    *)
(* when it succeeds nothing is bound and the value is tagged No; when it    *)
(* fails the value is not tagged No.                                       *)
C3_CurrentIsUnbound ==
    last.op = "make_not_current" /\ last.pre.ctx = last.c
        => /\ last.calls = <<MakeCurrentCall(Neutral)>>
           /\ last.res = "Ok" => /\ cur[last.t] = Neutral
                                 /\ ~is_current(last.t, last.c)
                                 /\ tag[last.c] = "No"
           /\ last.res # "Ok" => tag[last.c] # "No"

(* A failed make_not_current on the current context, which stays current. *)
C3_Witness ==
    /\ last.op = "make_not_current"
    /\ last.pre.ctx = last.c
    /\ last.res = "ContextLost"
    /\ is_current(last.t, last.c)
    /\ tag[last.c] = "PossiblyAndSurfaceBound"

----------------------------------------------------------------------------
(* Properties of the swap interval. *)

(* Whether a call issued the native eglSwapInterval. *)
IssuedSwapInterval(calls) == \E i \in 1..Len(calls) : calls[i] = SwapIntervalCall

(* C4: a make_current on a window surface that returns Ok issues            *)
(* eglSwapInterval when it is the first to return Ok for that surface and   *)
(* does not issue it when an earlier one has returned Ok; so calls that     *)
(* return Ok in a row issue it once, in the first.                          *)
C4_SwapIntervalInFirstSuccess ==
    /\ \A w \in Windows : /\ ever_ok[w] = has_been_current[w]
                          /\ ever_ok[w] => ok_swaps[w] = 1
    /\ last.op = "make_current_surface" /\ last.res = "Ok"
          => /\ last.flag => last.calls = <<MakeCurrentCall(Binding(last.c, last.s, last.s))>>
             /\ ~last.flag => last.calls = <<MakeCurrentCall(Binding(last.c, last.s, last.s)),
                                             SwapIntervalCall>>
             /\ has_been_current[last.s]

(* A make_current on a window surface has returned Ok after an earlier one  *)
(* did, and eglSwapInterval has been issued once for the surface.           *)
C4_Witness ==
    /\ last.op = "make_current_surface"
    /\ last.res = "Ok"
    /\ last.flag
    /\ ~IssuedSwapInterval(last.calls)
    /\ issued[last.s] = 1

(* C5 as stated: eglSwapInterval is never issued a second time for the same *)
(* surface.                                                                *)
C5_IssuedAtMostOnce == \A w \in Windows : issued[w] <= 1

(* C5: under every interleaving, eglSwapInterval succeeds at most once for  *)
(* a window surface; the flag is set only after it has succeeded; a         *)
(* make_current issues it only when it reads the flag false, and issues it  *)
(* whenever it returns Ok having read the flag false; a call on a pbuffer   *)
(* surface never issues it.                                                *)
C5_SwapIntervalSucceedsOnce ==
    /\ \A w \in Windows : /\ ok_swaps[w] <= 1
                          /\ ok_swaps[w] <= issued[w]
                          /\ has_been_current[w] => ok_swaps[w] = 1
    /\ \A p \in PBuffers : ~has_been_current[p]
    /\ last.op = "make_current_surface"
          => /\ IssuedSwapInterval(last.calls) => ~last.flag
             /\ last.res = "Ok" /\ ~last.flag => IssuedSwapInterval(last.calls)
    /\ last.op = "make_current_pbuffer" => ~IssuedSwapInterval(last.calls)

(* eglSwapInterval has failed once and then succeeded for a window surface. *)
C5_Witness ==
    \E w \in Windows : issued[w] = 2 /\ ok_swaps[w] = 1 /\ has_been_current[w]

----------------------------------------------------------------------------
(* Properties of currency across contexts and threads. *)

(* What every step of a make_current_* call for context b on thread t       *)
(* leaves to the other contexts: when the native bind succeeds none of them *)
(* is current on t any more, and in every case their tags stay.             *)
DisplacesOthers(t, b, bound) ==
    \A a \in Contexts \ {b} :
        /\ bound => cur'[t].ctx # a
        /\ tag'[a] = tag[a]

(* C6: when make_current_surface, make_current_pbuffer or                   *)
(* make_current_surfaceless binds context b on a thread, every other        *)
(* context stops being current on that thread, and no step of the call      *)
(* changes the tag of another context.                                      *)
C6_BindDisplacesAndKeepsTag ==
    [][ \A t \in Threads, b \in Contexts :
          /\ last'.t = t /\ last'.c = b /\ last'.s # NO_SURFACE
              /\ make_current_bind(t, b, last'.s)
                => DisplacesOthers(t, b, last'.res = "Ok")
          /\ last'.t = t /\ last'.c = b /\ last'.s = NO_SURFACE
              /\ SplitContext_make_current_surfaceless(t, b)
                => DisplacesOthers(t, b, last'.res = "Ok")
          /\ pc[t] # "idle" /\ call[t].c = b
              /\ (make_current_lock(t) \/ make_current_locked(t) \/ make_current_set_flag(t))
                => /\ DisplacesOthers(t, b, FALSE)
                   /\ cur' = cur ]_vars

(* A context has been made current on a thread where another one was: the   *)
(* other one is not current any more and is still tagged as possibly        *)
(* current.                                                                 *)
C6_Witness ==
    /\ last.op = "make_current_surfaceless"
    /\ last.res = "Ok"
    /\ last.pre.ctx \notin {NO_CONTEXT, last.c}
    /\ ~is_current(last.t, last.pre.ctx)
    /\ is_current(last.t, last.c)
    /\ tag[last.pre.ctx] = "PossiblyAndSurfaceBound"

(* C7: a value changes thread only when its tag is No, and, with the         *)
(* unchecked relabelling left out, a context is current only on the thread  *)
(* that holds its value, hence on one thread at most.                       *)
C7_CurrentOnlyOnHolder ==
    \A c \in Contexts, t \in Threads :
        is_current(t, c) => /\ holder[c] = t
                            /\ ctx_alive[c]
                            /\ tag[c] # "No" \/ pc[t] # "idle"

(* Both threads have a context current while one of them holds a value it   *)
(* was sent.                                                                *)
C7_Witness ==
    /\ \A t \in Threads : cur[t].ctx # NO_CONTEXT
    /\ \E c \in Contexts : is_current(holder[c], c) /\ holder[c] = 2
    /\ \A t \in Threads : pc[t] = "idle"

(* C8: treat_as_not_current and treat_as_current change the tag and nothing *)
(* else: no native call, every thread's binding and every surface's         *)
(* has_been_current as before; a context that was current stays current.    *)
C8_RelabelOnly ==
    [][ \A t \in Threads, c \in Contexts :
          (/\ last'.t = t /\ last'.c = c
           /\ treat_as_not_current(t, c) \/ treat_as_current(t, c, tag'[c]))
            => /\ cur' = cur
               /\ has_been_current' = has_been_current
               /\ issued' = issued
               /\ last'.calls = <<>>
               /\ \A t2 \in Threads : is_current(t2, c) => cur'[t2].ctx = c ]_vars

(* treat_as_not_current has returned for a context that is current with a   *)
(* surface: the tag says No and the context is still current.               *)
C8_Witness ==
    /\ last.op = "treat_as_not_current"
    /\ tag[last.c] = "No"
    /\ is_current(last.t, last.c)
    /\ cur[last.t].draw # NO_SURFACE

----------------------------------------------------------------------------
(* Properties of Context::new. *)

(* Whether the attribute list gives attribute name the value v. *)
HasAttribute(attribs, name, v) ==
    \E i \in 1..(Len(attribs) - 1) : attribs[i] = Attr(name) /\ attribs[i + 1] = v

(* Whether the attribute list names the attribute. *)
NamesAttribute(attribs, name) ==
    \E i \in 1..Len(attribs) : attribs[i] = Attr(name)

(* Context::new has returned for desktop GL 3.3 with                        *)
(* RobustLoseContextOnReset on a display of this version and these          *)
(* extensions, eglBindAPI and eglCreateContext succeeding when called.      *)
RobustGl33On(v, e) ==
    /\ res # NoResult
    /\ dpy.egl_version = v
    /\ dpy.extensions = e
    /\ req.api = "OpenGl"
    /\ req.version = <<3, 3>>
    /\ req.robustness = "RobustLoseContextOnReset"
    /\ req.bind_api_ret
    /\ req.create_ret = "context"

(* The list names major version 3, minor version 3 and the reset            *)
(* notification strategy.                                                   *)
VersionAndStrategy(attribs) ==
    /\ HasAttribute(attribs, "CONTEXT_MAJOR_VERSION", Val(3))
    /\ HasAttribute(attribs, "CONTEXT_MINOR_VERSION", Val(3))
    /\ HasAttribute(attribs, "CONTEXT_OPENGL_RESET_NOTIFICATION_STRATEGY",
                    Attr("LOSE_CONTEXT_ON_RESET"))

(* C9 as stated: on version 1.4 with exactly EGL_KHR_create_context the      *)
(* call succeeds and the list has the version and the strategy.             *)
C9_SucceedsWithCreateContextOnly ==
    RobustGl33On(<<1, 4>>, {"EGL_KHR_create_context"})
        => res.kind = "Ok" /\ VersionAndStrategy(res.attribs)

(* C9: on version 1.4 with EGL_KHR_create_context, the call succeeds with    *)
(* the version and the strategy in the list when the display also lists     *)
(* EGL_EXT_create_context_robustness; with exactly EGL_KHR_create_context   *)
(* it returns RobustnessNotSupported and eglCreateContext is not called.    *)
C9_NeedsRobustnessExtension ==
    /\ RobustGl33On(<<1, 4>>, {"EGL_KHR_create_context", "EGL_EXT_create_context_robustness"})
          => /\ res.kind = "Ok"
             /\ res.created
             /\ VersionAndStrategy(res.attribs)
    /\ RobustGl33On(<<1, 4>>, {"EGL_KHR_create_context"})
          => /\ res.kind = "Err"
             /\ res.err = "RobustnessNotSupported"
             /\ ~res.created

(* The call has succeeded on version 1.4 with the two extensions. *)
C9_Witness ==
    /\ RobustGl33On(<<1, 4>>, {"EGL_KHR_create_context", "EGL_EXT_create_context_robustness"})
    /\ res.kind = "Ok"
    /\ NamesAttribute(res.attribs, "CONTEXT_FLAGS_KHR")

(* C10 as stated: on version 1.2 with no extension the call fails with       *)
(* RobustnessNotSupported.                                                  *)
C10_FailsWithRobustnessNotSupported ==
    RobustGl33On(<<1, 2>>, {})
        => res.kind = "Err" /\ res.err = "RobustnessNotSupported"

(* C10: on version 1.2 with no extension the call fails, and the error is    *)
(* OpenGlVersionNotSupported, from bind_api: desktop GL needs version 1.4,  *)
(* and neither the robustness nor eglCreateContext is reached.              *)
C10_FailsWithVersionNotSupported ==
    RobustGl33On(<<1, 2>>, {})
        => /\ res.kind = "Err"
           /\ res.err = "OpenGlVersionNotSupported"
           /\ ~res.created

(* The call has returned an error on version 1.2 with no extension. *)
C10_Witness ==
    /\ RobustGl33On(<<1, 2>>, {})
    /\ res.kind = "Err"
    /\ bind_api(req.api, dpy.egl_version, req.bind_api_ret) # "Ok"

(* The strict variants of Robustness. *)
StrictRobustness == {"RobustNoResetNotification", "RobustLoseContextOnReset"}

(* C11: when a strict variant is requested on a display without the          *)
(* robustness capability, of a version for which Config::new yields configs *)
(* of the API (1.3), and the API has been bound, Context::new returns        *)
(* RobustnessNotSupported and eglCreateContext is not called, for every API *)
(* and extension set.                                                       *)
C11_StrictIsRefusedWithoutCapability ==
    (/\ res # NoResult
     /\ VersionGE(dpy.egl_version, <<1, 3>>)
     /\ req.robustness \in StrictRobustness
     /\ ~supports_robustness(dpy)
     /\ bind_api(req.api, dpy.egl_version, req.bind_api_ret) = "Ok")
        => /\ res.kind = "Err"
           /\ res.err = "RobustnessNotSupported"
           /\ ~res.created

----------------------------------------------------------------------------
(* The color bits of the descriptor that Config::new gives eglChooseConfig   *)
(* (egl.rs).                                                                *)

(* cb.color_bits is a u8. *)
U8_MAX == 255

ColorRequests == {[color_bits |-> None]} \cup {[color_bits |-> Some(c)] : c \in 0..U8_MAX}

(* The split that drops the remainder. *)
color_attributes_truncating(color_bits) ==
    IF color_bits = None THEN <<>>
    ELSE LET color == color_bits[1] IN
         <<Attr("RED_SIZE"), Val(color \div 3),
           Attr("GREEN_SIZE"), Val(color \div 3),
           Attr("BLUE_SIZE"), Val(color \div 3)>>

(* The split that serves blue before green. *)
color_attributes_blue_first(color_bits) ==
    IF color_bits = None THEN <<>>
    ELSE LET color == color_bits[1] IN
         <<Attr("RED_SIZE"), Val(color \div 3),
           Attr("GREEN_SIZE"), Val(color \div 3 + (IF color % 3 = 2 THEN 1 ELSE 0)),
           Attr("BLUE_SIZE"), Val(color \div 3 + (IF color % 3 # 0 THEN 1 ELSE 0))>>

(* if let Some(color) = cb.color_bits: what is pushed to the descriptor. *)
color_attributes(color_bits) ==
    IF color_bits = None THEN <<>>
    ELSE LET color == color_bits[1] IN
         <<Attr("RED_SIZE"), Val(color \div 3),
           Attr("GREEN_SIZE"), Val(color \div 3 + (IF color % 3 # 0 THEN 1 ELSE 0)),
           Attr("BLUE_SIZE"), Val(color \div 3 + (IF color % 3 = 2 THEN 1 ELSE 0))>>

(* The builder whose color bits are put in the descriptor. *)
InitColor ==
    /\ cur = [t \in Threads |-> Neutral]
    /\ ctx_alive = [c \in Contexts |-> TRUE]
    /\ tag = [c \in Contexts |-> "No"]
    /\ holder = [c \in Contexts |-> 1]
    /\ surf_alive = [s \in Surfaces |-> TRUE]
    /\ has_been_current = [s \in Surfaces |-> FALSE]
    /\ mutex = [s \in Surfaces |-> 0]
    /\ pc = [t \in Threads |-> "idle"]
    /\ call = [t \in Threads |-> NoCall]
    /\ last = NoOp
    /\ issued = [s \in Windows |-> 0]
    /\ ever_ok = [s \in Windows |-> FALSE]
    /\ ok_swaps = [s \in Windows |-> 0]
    /\ dpy = NoDisplay
    /\ req \in ColorRequests
    /\ res = NoResult
    /\ EGL = EglLoaded
    /\ desc = NoDesc
    /\ conn = NoNative
    /\ owned = NoOwners

(* The descriptor block at the color bits. *)
PushColorBits ==
    /\ res = NoResult
    /\ res' = [kind |-> "descriptor", out |-> color_attributes(req.color_bits)]
    /\ UNCHANGED <<currency_vars, dpy, req, EGL, desc, conn, owned>>

NextColor == PushColorBits

SpecColor == InitColor /\ [][NextColor]_vars

----------------------------------------------------------------------------
(* The static EGL and the calls that dereference it first (egl.rs). *)

(* Display::new and Config::new: the calls a program can make before it has  *)
(* a Display.                                                               *)
Consumers == {"Display_new", "Config_new"}

(* What a consumer does with EGL.as_ref(): Display::new maps the error and   *)
(* returns it (map_err(..)?), Config::new unwraps, which panics on Err.     *)
consumer_result(op, value) ==
    IF value = "Ok" THEN "Ok"
    ELSE IF op = "Display_new" THEN "Err"
    ELSE "panic"

(* No thread has touched EGL; the library is there to load or is not. *)
InitLoad ==
    /\ cur = [t \in Threads |-> Neutral]
    /\ ctx_alive = [c \in Contexts |-> FALSE]
    /\ tag = [c \in Contexts |-> "No"]
    /\ holder = [c \in Contexts |-> 1]
    /\ surf_alive = [s \in Surfaces |-> FALSE]
    /\ has_been_current = [s \in Surfaces |-> FALSE]
    /\ mutex = [s \in Surfaces |-> 0]
    /\ pc = [t \in Threads |-> "idle"]
    /\ call = [t \in Threads |-> NoCall]
    /\ last = NoOp
    /\ issued = [s \in Windows |-> 0]
    /\ ever_ok = [s \in Windows |-> FALSE]
    /\ ok_swaps = [s \in Windows |-> 0]
    /\ dpy = NoDisplay
    /\ req \in [library_loads : BOOLEAN]
    /\ res = [t \in Threads |-> <<>>]
    /\ EGL = EglUninit
    /\ desc = NoDesc
    /\ conn = NoNative
    /\ owned = NoOwners

load_unchanged == <<cur, ctx_alive, tag, holder, surf_alive, has_been_current, mutex, last,
                    issued, ever_ok, ok_swaps, dpy, req, desc, conn, owned>>

(* A thread calls Display::new or Config::new: its first statement is        *)
(* EGL.as_ref(), the dereference of the lazy static.                        *)
consumer_call(t, op) ==
    /\ pc[t] = "idle"
    /\ Len(res[t]) < MaxConsumerCalls
    /\ pc' = [pc EXCEPT ![t] = "deref"]
    /\ call' = [call EXCEPT ![t] = [op |-> op]]
    /\ UNCHANGED <<load_unchanged, res, EGL>>

(* The dereference finds the static uninitialized: this thread is the one    *)
(* that runs the initializer, and the others wait for it.                   *)
lazy_initialize(t) ==
    /\ pc[t] = "deref"
    /\ EGL.state = "uninit"
    /\ EGL' = [EGL EXCEPT !.state = "running"]
    /\ pc' = [pc EXCEPT ![t] = "init"]
    /\ UNCHANGED <<load_unchanged, call, res>>

(* Egl::new: the library is loaded, or the load fails; the Result is stored. *)
Egl_new(t) ==
    /\ pc[t] = "init"
    /\ EGL' = [state |-> "done",
               value |-> IF req.library_loads THEN "Ok" ELSE "Err",
               loads |-> EGL.loads + 1]
    /\ pc' = [pc EXCEPT ![t] = "deref"]
    /\ UNCHANGED <<load_unchanged, call, res>>

(* The dereference yields the stored Result and the consumer goes on with    *)
(* it: it returns, or it panics and the thread unwinds.                     *)
consumer_return(t) ==
    /\ pc[t] = "deref"
    /\ EGL.state = "done"
    /\ LET r == consumer_result(call[t].op, EGL.value) IN
       /\ res' = [res EXCEPT ![t] = Append(@, [op |-> call[t].op, result |-> r])]
       /\ pc' = [pc EXCEPT ![t] = IF r = "panic" THEN "panicked" ELSE "idle"]
    /\ call' = [call EXCEPT ![t] = NoCall]
    /\ UNCHANGED <<load_unchanged, EGL>>

NextLoad ==
    \E t \in Threads :
        \/ \E op \in Consumers : consumer_call(t, op)
        \/ lazy_initialize(t)
        \/ Egl_new(t)
        \/ consumer_return(t)

SpecLoad == InitLoad /\ [][NextLoad]_vars

----------------------------------------------------------------------------
(* The attribute lists handed to eglChooseConfig, eglCreateContext and the   *)
(* surface creation calls (egl.rs).                                         *)

(* The ConfigBuilder fields the descriptor block of Config::new reads. *)
DescriptorBuilders ==
    [version : {<<"OpenGl", <<3, 3>>>>, <<"OpenGlEs", <<3, 0>>>>, <<"OpenGlEs", <<2, 0>>>>,
                <<"OpenGlEs", <<1, 1>>>>},
     window_surface_support : BOOLEAN,
     pbuffer_surface_support : {TRUE},
     pixmap_surface_support : {FALSE},
     hardware_accelerated : {None, Some(TRUE), Some(FALSE)},
     color_bits : {None, Some(24)},
     alpha_bits : {None, Some(8)},
     depth_bits : {None, Some(24)},
     stencil_bits : {None},
     double_buffer : {None},
     multisampling : {None, Some(4)},
     stereoscopy : BOOLEAN,
     x11_visual_xid : {None, Some(33)},
     release_behavior : ReleaseBehavior,
     srgb : {None, Some(TRUE), Some(FALSE)}]

(* A (key, value) pair pushed when the Option holds a value. *)
push_some(key, opt) == IF opt = None THEN <<>> ELSE <<Attr(key), Val(opt[1])>>

(* RENDERABLE_TYPE and CONFORMANT with the bit of the version. *)
renderable(bit) ==
    <<Attr("RENDERABLE_TYPE"), Attr(bit), Attr("CONFORMANT"), Attr(bit)>>

(* The descriptor block of Config::new: the list handed to eglChooseConfig,  *)
(* or no list when the block returns the errors.                            *)
config_descriptor(d, cb) ==
    LET api == cb.version[1]
        major == cb.version[2][1]
        below13 == ~VersionGE(d.egl_version, <<1, 3>>)
        version_refused == /\ below13
                           /\ api = "OpenGl" \/ (api = "OpenGlEs" /\ major \in {2, 3})
        bit == IF api = "OpenGl" THEN "OPENGL_BIT"
               ELSE IF major = 3 THEN "OPENGL_ES3_BIT"
               ELSE IF major = 2 THEN "OPENGL_ES2_BIT"
               ELSE "OPENGL_ES_BIT"
        surface_type_bits == (IF cb.window_surface_support THEN {"WINDOW_BIT"} ELSE {})
                        \cup (IF cb.pbuffer_surface_support THEN {"PBUFFER_BIT"} ELSE {})
                        \cup (IF cb.pixmap_surface_support THEN {"PIXMAP_BIT"} ELSE {})
        out == (IF VersionGE(d.egl_version, <<1, 2>>)
                THEN <<Attr("COLOR_BUFFER_TYPE"), Attr("RGB_BUFFER")>> ELSE <<>>)
               \o <<Attr("SURFACE_TYPE"), Flags(surface_type_bits)>>
               \o (IF below13 THEN <<>> ELSE renderable(bit))
               \o (IF cb.hardware_accelerated = None THEN <<>>
                   ELSE <<Attr("CONFIG_CAVEAT"),
                          Attr(IF cb.hardware_accelerated[1] THEN "NONE" ELSE "SLOW_CONFIG")>>)
               \o color_attributes(cb.color_bits)
               \o push_some("ALPHA_SIZE", cb.alpha_bits)
               \o push_some("DEPTH_SIZE", cb.depth_bits)
               \o push_some("STENCIL_SIZE", cb.stencil_bits)
               \o push_some("SAMPLES", cb.multisampling)
               \o push_some("NATIVE_VISUAL_ID", cb.x11_visual_xid)
               \o <<Attr("NONE")>>
    IN IF \/ version_refused
          \/ cb.double_buffer = Some(TRUE)
          \/ cb.stereoscopy
          \/ cb.release_behavior = "None" /\ ~has_extension(d, "EGL_KHR_context_flush_control")
          \/ cb.srgb = Some(TRUE) /\ ~has_extension(d, "EGL_KHR_gl_colorspace")
       THEN [handed |-> FALSE, out |-> <<>>]
       ELSE [handed |-> TRUE, out |-> out]

(* The ConfigAttribs fields assemble_desc reads, and its size argument. *)
SurfaceRequests ==
    [attribs : [srgb : BOOLEAN, alpha_bits : {0, 8}],
     size : {None} \cup {Some(z) : z \in PBufferSizes}]

(* The requests whose attribute lists are built. *)
AttrRequests ==
    {[for |-> "config", arg |-> cb] : cb \in DescriptorBuilders}
    \cup {[for |-> "context", arg |-> r] : r \in Requests}
    \cup {[for |-> "surface", arg |-> r] : r \in SurfaceRequests}

InitAttr ==
    /\ cur = [t \in Threads |-> Neutral]
    /\ ctx_alive = [c \in Contexts |-> TRUE]
    /\ tag = [c \in Contexts |-> "No"]
    /\ holder = [c \in Contexts |-> 1]
    /\ surf_alive = [s \in Surfaces |-> TRUE]
    /\ has_been_current = [s \in Surfaces |-> FALSE]
    /\ mutex = [s \in Surfaces |-> 0]
    /\ pc = [t \in Threads |-> "idle"]
    /\ call = [t \in Threads |-> NoCall]
    /\ last = NoOp
    /\ issued = [s \in Windows |-> 0]
    /\ ever_ok = [s \in Windows |-> FALSE]
    /\ ok_swaps = [s \in Windows |-> 0]
    /\ dpy \in Displays \cup ConfigDisplays
    /\ req \in AttrRequests
    /\ res = NoResult
    /\ EGL = EglLoaded
    /\ desc = NoDesc
    /\ conn = NoNative
    /\ owned = NoOwners

(* What a call has made of its list: handed it to the native call, or        *)
(* returned before.                                                         *)
Handed(h) == [kind |-> IF h THEN "handed" ELSE "returned"]

(* Config::new up to eglChooseConfig. *)
ChooseConfig ==
    /\ res = NoResult
    /\ req.for = "config"
    /\ LET c == config_descriptor(dpy, req.arg) IN
       /\ res' = Handed(c.handed)
       /\ desc' = IF c.handed THEN [call |-> "eglChooseConfig", entry |-> 0, list |-> c.out]
                  ELSE desc
    /\ UNCHANGED <<currency_vars, dpy, req, EGL, conn, owned>>

(* Context::new up to eglCreateContext. *)
CreateContext ==
    /\ res = NoResult
    /\ req.for = "context"
    /\ LET c == Context_new(dpy, req.arg) IN
       /\ res' = Handed(c.created)
       /\ desc' = IF c.created
                  THEN [call |-> "eglCreateContext", entry |-> 0, list |-> c.attribs]
                  ELSE desc
    /\ UNCHANGED <<currency_vars, dpy, req, EGL, conn, owned>>

(* Surface::new up to eglCreateWindowSurface or eglCreatePbufferSurface. *)
CreateSurface ==
    /\ res = NoResult
    /\ req.for = "surface"
    /\ res' = Handed(TRUE)
    /\ desc' = [call |-> IF req.arg.size = None THEN "eglCreateWindowSurface"
                         ELSE "eglCreatePbufferSurface",
                entry |-> 0,
                list |-> assemble_desc(dpy, req.arg.attribs, req.arg.size)]
    /\ UNCHANGED <<currency_vars, dpy, req, EGL, conn, owned>>

NextAttr == ChooseConfig \/ CreateContext \/ CreateSurface

SpecAttr == InitAttr /\ [][NextAttr]_vars

----------------------------------------------------------------------------
(* Properties of Config::new. *)

(* Config::new has returned. *)
ConfigReturned == res # NoResult /\ req \in ConfigRequests

(* What Config::new returns for the same display and native answers when     *)
(* the request's srgb is Some(x).                                           *)
WithSrgb(x) == Config_new(dpy, [req.cb EXCEPT !.srgb = Some(x)], req.native)

(* The list is the list of o twice over: entry i and entry i + n have the    *)
(* same config id and the same attributes but for srgb, false then true.    *)
DoubleOf(list, o) ==
    LET n == Len(o.list) IN
    /\ Len(list) = 2 * n
    /\ \A i \in 1..n :
          /\ list[i].config_id = list[i + n].config_id
          /\ list[i].config_id = o.list[i].config_id
          /\ list[i].attribs.srgb = FALSE
          /\ list[i + n].attribs.srgb = TRUE
          /\ [list[i + n] EXCEPT !.attribs.srgb = FALSE] = list[i]

(* C12 as stated: with srgb unspecified the list is the double of the list   *)
(* returned with srgb set to true and of the one returned with it set to    *)
(* false.                                                                   *)
C12_DoubleOfEitherExplicit ==
    (ConfigReturned /\ req.cb.srgb = None /\ res.kind = "Ok")
        => \A x \in BOOLEAN : WithSrgb(x).kind = "Ok" /\ DoubleOf(res.list, WithSrgb(x))

(* C12: with srgb unspecified the list is the double of the list returned    *)
(* with srgb set to false, and of the one returned with srgb set to true    *)
(* when that request returns a list; on a display without                   *)
(* EGL_KHR_gl_colorspace the request with srgb true returns the error set.  *)
C12_DoubleOfExplicitList ==
    (ConfigReturned /\ req.cb.srgb = None /\ res.kind = "Ok")
        => /\ WithSrgb(FALSE).kind = "Ok"
           /\ DoubleOf(res.list, WithSrgb(FALSE))
           /\ IF has_extension(dpy, "EGL_KHR_gl_colorspace")
              THEN WithSrgb(TRUE).kind = "Ok" /\ DoubleOf(res.list, WithSrgb(TRUE))
              ELSE WithSrgb(TRUE).kind = "Err"

(* A list of four entries has been returned with srgb unspecified. *)
C12_Witness ==
    /\ ConfigReturned
    /\ req.cb.srgb = None
    /\ res.kind = "Ok"
    /\ Len(res.list) = 4
    /\ has_extension(dpy, "EGL_KHR_gl_colorspace")

(* The desired swap interval n lies outside [min, max] of native config id. *)
OutsideRange(id, n) ==
    /\ NativeConfig(id).attrib_ok
    /\ n < NativeConfig(id).min \/ n > NativeConfig(id).max

(* Native enumeration has returned its configs to Config::new. *)
Enumerated ==
    /\ ConfigReturned
    /\ res.enumerated
    /\ req.native.choose.ok
    /\ req.native.choose.configs # <<>>

(* C13: when the desired swap interval lies outside [min, max] of every      *)
(* enumerated config, Config::new fails with NoAvailableConfig, the         *)
(* selector is not called, and the error set holds one reason per config.   *)
C13_OutsideEveryRange ==
    (/\ Enumerated
     /\ req.cb.desired_swap_interval # None
     /\ \A i \in 1..Len(req.native.choose.configs) :
           OutsideRange(req.native.choose.configs[i],
                        req.cb.desired_swap_interval[1].n))
        => /\ res.kind = "Err"
           /\ res.err.kind = "NoAvailableConfig"
           /\ ~res.selected
           /\ res.list = <<>>
           /\ Len(res.err.reasons) = Len(req.native.choose.configs)

(* Two configs were enumerated and both were rejected for their range. *)
C13_Witness ==
    /\ Enumerated
    /\ req.cb.desired_swap_interval = Some([kind |-> "Wait", n |-> 3])
    /\ req.native.choose.configs = <<1, 2>>
    /\ res.kind = "Err"
    /\ Len(res.err.reasons) = 2

(* C14: surfaceless support requested on a display without                   *)
(* EGL_KHR_surfaceless_context fails with NotSupported: no list is          *)
(* returned and the native enumeration is not made.                         *)
C14_SurfacelessNotSupported ==
    (/\ ConfigReturned
     /\ req.cb.surfaceless_support
     /\ "EGL_KHR_surfaceless_context" \notin dpy.extensions)
        => /\ res.kind = "Err"
           /\ res.err.kind = "NotSupported"
           /\ res.list = <<>>
           /\ ~res.enumerated

(* A request that would otherwise return a list is refused. *)
C14_Witness ==
    /\ ConfigReturned
    /\ req.cb.surfaceless_support
    /\ "EGL_KHR_surfaceless_context" \notin dpy.extensions
    /\ Config_new(dpy, [req.cb EXCEPT !.surfaceless_support = FALSE], req.native).kind = "Ok"
    /\ res.err.kind = "NotSupported"

(* Config::new has returned and went past the surfaceless test and          *)
(* bind_api, to the checks on the request.                                  *)
ChecksReached ==
    /\ ConfigReturned
    /\ ~(req.cb.surfaceless_support /\ "EGL_KHR_surfaceless_context" \notin dpy.extensions)
    /\ bind_api(req.cb.version[1], dpy.egl_version, req.native.bind_api_ret) = "Ok"

AdaptiveRequested ==
    /\ req.cb.desired_swap_interval # None
    /\ req.cb.desired_swap_interval[1].kind = "AdaptiveWait"

FlushControlMissing ==
    /\ req.cb.release_behavior = "None"
    /\ "EGL_KHR_context_flush_control" \notin dpy.extensions

(* How many of the four checks of the request fail. *)
FailingChecks ==
    (IF AdaptiveRequested THEN 1 ELSE 0)
    + (IF req.cb.double_buffer = Some(FALSE) THEN 1 ELSE 0)
    + (IF req.cb.stereoscopy THEN 1 ELSE 0)
    + (IF FlushControlMissing THEN 1 ELSE 0)

ReturnsWithoutReason ==
    \/ ~VersionGE(dpy.egl_version, <<1, 3>>)
    \/ req.cb.double_buffer = Some(TRUE)
    \/ req.cb.stereoscopy

C19_DisabledDoubleBufferIsRejected ==
    ChecksReached
        => /\ req.cb.double_buffer = Some(FALSE) => res.kind = "Err"
           /\ (/\ req.cb.double_buffer # Some(FALSE)
               /\ Config_new(dpy, [req.cb EXCEPT !.double_buffer = None], req.native).kind = "Ok")
                 => res.kind = "Ok"
           /\ \A i \in DOMAIN res.list : res.list[i].attribs.double_buffer

----------------------------------------------------------------------------
(* Properties of Display::bind_api, seen through Context::new. *)

(* Context::new has returned the error of bind_api: eglCreateContext was not *)
(* called.                                                                  *)
BindFailed ==
    /\ res # NoResult
    /\ res.kind = "Err"
    /\ res.err = "OpenGlVersionNotSupported"
    /\ ~res.created

(* C20 as stated: desktop GL fails with OpenGlVersionNotSupported on every   *)
(* version below 1.4, OpenGL ES on every version below 1.2, and so does a   *)
(* bind that the native call refuses.                                       *)
C20_FailsBelowRequirement ==
    (res # NoResult /\ req \in Requests)
        => /\ (req.api = "OpenGl" /\ ~VersionGE(dpy.egl_version, <<1, 4>>)) => BindFailed
           /\ (req.api = "OpenGlEs" /\ ~VersionGE(dpy.egl_version, <<1, 2>>)) => BindFailed
           /\ (/\ \/ req.api = "OpenGl" /\ VersionGE(dpy.egl_version, <<1, 4>>)
                  \/ req.api = "OpenGlEs" /\ VersionGE(dpy.egl_version, <<1, 2>>)
               /\ ~req.bind_api_ret) => BindFailed

(* C20: below version 1.2 bind_api tests nothing, calls nothing and succeeds *)
(* for every API; from 1.2 on desktop GL below 1.4 and any API other than   *)
(* GL and ES fail with OpenGlVersionNotSupported, and GL from 1.4 and ES    *)
(* from 1.2 fail with it exactly when eglBindAPI returns failure.           *)
C20_FailsFrom12BelowRequirement ==
    (res # NoResult /\ req \in Requests)
        => IF ~VersionGE(dpy.egl_version, <<1, 2>>)
           THEN ~BindFailed
           ELSE /\ (req.api = "OpenGl" /\ ~VersionGE(dpy.egl_version, <<1, 4>>)) => BindFailed
                /\ req.api \notin {"OpenGl", "OpenGlEs"} => BindFailed
                /\ (\/ req.api = "OpenGl" /\ VersionGE(dpy.egl_version, <<1, 4>>)
                    \/ req.api = "OpenGlEs") => (BindFailed <=> ~req.bind_api_ret)

(* OpenGL ES was asked for on version 1.1, eglBindAPI would have refused,    *)
(* and eglCreateContext was called.                                         *)
C20_Witness ==
    /\ res # NoResult
    /\ req \in Requests
    /\ dpy.egl_version = <<1, 1>>
    /\ req.api = "OpenGlEs"
    /\ ~req.bind_api_ret
    /\ res.created

----------------------------------------------------------------------------
(* Properties of the color bits of the descriptor. *)

(* The value pushed after the attribute name. *)
SizeOf(out, name) == out[(CHOOSE i \in DOMAIN out : out[i] = Attr(name)) + 1][2]

(* Color bits were requested and pushed. *)
ColorPushed ==
    /\ res # NoResult
    /\ req \in ColorRequests
    /\ req.color_bits # None

red == SizeOf(res.out, "RED_SIZE")
green == SizeOf(res.out, "GREEN_SIZE")
blue == SizeOf(res.out, "BLUE_SIZE")

(* The distance of two sizes. *)
Diff(a, b) == IF a >= b THEN a - b ELSE b - a

(* C15: 24 is split into 8, 8, 8, 16 into 5, 6, 5 and 17 into 5, 6, 6; for   *)
(* every request the three sizes add up to it and no two of them differ by  *)
(* more than 1.                                                             *)
C15_EvenSplit ==
    ColorPushed
        => LET c == req.color_bits[1] IN
           /\ Len(res.out) = 6
           /\ c = 24 => <<red, green, blue>> = <<8, 8, 8>>
           /\ c = 16 => <<red, green, blue>> = <<5, 6, 5>>
           /\ c = 17 => <<red, green, blue>> = <<5, 6, 6>>
           /\ red + green + blue = c
           /\ Diff(red, green) <= 1
           /\ Diff(green, blue) <= 1
           /\ Diff(red, blue) <= 1

(* 17 color bits were requested and split. *)
C15_Witness ==
    /\ ColorPushed
    /\ req.color_bits = Some(17)
    /\ blue = 6

(* C16 as stated: a remainder of 1 goes to blue, a remainder of 2 to blue    *)
(* and green.                                                               *)
C16_RemainderToBlueThenGreen ==
    ColorPushed
        => LET c == req.color_bits[1] IN
           /\ c % 3 = 1 => <<red, green, blue>> = <<c \div 3, c \div 3, c \div 3 + 1>>
           /\ c % 3 = 2 => <<red, green, blue>> = <<c \div 3, c \div 3 + 1, c \div 3 + 1>>

(* C16: a remainder of 1 goes to green, a remainder of 2 to green and blue,  *)
(* and red is the quotient always.                                          *)
C16_RemainderToGreenThenBlue ==
    ColorPushed
        => LET c == req.color_bits[1] IN
           /\ c % 3 = 0 => <<red, green, blue>> = <<c \div 3, c \div 3, c \div 3>>
           /\ c % 3 = 1 => <<red, green, blue>> = <<c \div 3, c \div 3 + 1, c \div 3>>
           /\ c % 3 = 2 => <<red, green, blue>> = <<c \div 3, c \div 3 + 1, c \div 3 + 1>>

(* 16 color bits, of remainder 1, were requested and split. *)
C16_Witness ==
    /\ ColorPushed
    /\ req.color_bits = Some(16)
    /\ green = 6
    /\ blue = 5

----------------------------------------------------------------------------
(* Properties of the static EGL. *)

(* C17: the library load is made at most once under every interleaving, and  *)
(* exactly once when a consumer has returned; when it failed, every         *)
(* consumer gets the failure as an error result.                            *)
C17_LoadedOnceFailureIsError ==
    /\ EGL.loads <= 1
    /\ \A t \in Threads : \A i \in DOMAIN res[t] :
          /\ EGL.loads = 1
          /\ ~req.library_loads => res[t][i].result = "Err"

----------------------------------------------------------------------------
(* Properties of the configs Config::new returns. *)

DontWait == [kind |-> "DontWait", n |-> 0]
Wait(n) == [kind |-> "Wait", n |-> n]
RangeDontWait == [kind |-> "DontWait", start |-> 0, end |-> 0]
RangeWait(a, b) == [kind |-> "Wait", start |-> a, end |-> b]

(* C26: a returned config of native (min, max) has the ranges [DontWait]     *)
(* for (0, 0), [Wait(1..max), DontWait] for min = 0 < max and                *)
(* [Wait(min..max)] for min > 0; without a desired swap interval in the     *)
(* request its desired swap interval is the first of them; and when the     *)
(* selector returns only configs it was given, its desired swap interval    *)
(* lies within [min, max].                                                  *)
C26_RangesAndDefault ==
    (ConfigReturned /\ res.kind = "Ok")
        => \A i \in DOMAIN res.list :
             LET a == res.list[i].attribs
                 min == NativeConfig(res.list[i].config_id).min
                 max == NativeConfig(res.list[i].config_id).max
             IN /\ min <= max
                /\ (min = 0 /\ max = 0) => a.swap_interval_ranges = <<RangeDontWait>>
                /\ (min = 0 /\ max > 0)
                      => a.swap_interval_ranges = <<RangeWait(1, max), RangeDontWait>>
                /\ min > 0 => a.swap_interval_ranges = <<RangeWait(min, max)>>
                /\ req.cb.desired_swap_interval = None
                      => a.desired_swap_interval =
                            IF min = 0 /\ max = 0 THEN DontWait
                            ELSE IF min = 0 THEN Wait(1)
                            ELSE Wait(min)
                /\ req.native.selector # "unfiltered"
                      => (min <= a.desired_swap_interval.n /\ a.desired_swap_interval.n <= max)

(* A config of range (0, 2) was returned to a request with no desired swap   *)
(* interval.                                                                *)
C26_Witness ==
    /\ ConfigReturned
    /\ res.kind = "Ok"
    /\ req.cb.desired_swap_interval = None
    /\ req.native.selector = "all"
    /\ \E i \in DOMAIN res.list :
          /\ res.list[i].config_id = 4
          /\ res.list[i].attribs.desired_swap_interval = Wait(1)

(* The swap-interval filter keeps native config id for the request. *)
PassesFilter(id) ==
    \/ req.cb.desired_swap_interval = None
    \/ /\ NativeConfig(id).attrib_ok
       /\ NativeConfig(id).min <= req.cb.desired_swap_interval[1].n
       /\ req.cb.desired_swap_interval[1].n <= NativeConfig(id).max

(* The candidates left after each stage: the enumeration, the filter, the    *)
(* selector and the reading of the attributes.                              *)
AfterEnumeration == req.native.choose.configs
AfterFilter == SelectSeq(AfterEnumeration, PassesFilter)
AfterSelector ==
    IF AfterFilter = <<>> THEN <<>>
    ELSE CASE req.native.selector = "all" -> AfterFilter
           [] req.native.selector = "errors" -> <<>>
           [] req.native.selector = "unfiltered" -> AfterEnumeration
Survivors == SelectSeq(AfterSelector, LAMBDA id : NativeConfig(id).attrib_ok)

(* C27: once eglChooseConfig has answered, Config::new returns the errors    *)
(* exactly when no candidate is left after the enumeration, the filter, or  *)
(* the selector and the reading of the attributes; otherwise it returns Ok  *)
(* with the surviving candidates in order, never an empty list, and the     *)
(* reasons of the dropped candidates are not part of what it returns.       *)
C27_ErrorExactlyWhenEmpty ==
    (ConfigReturned /\ res.enumerated /\ req.native.choose.ok)
        => /\ res.kind = "Err" <=> Survivors = <<>>
           /\ res.kind = "Err" => res.err.kind = "NoAvailableConfig" /\ res.list = <<>>
           /\ res.kind = "Ok"
                 => /\ res.list # <<>>
                    /\ res.err.reasons = <<>>
                    /\ Len(res.list) >= Len(Survivors)
                    /\ \A i \in DOMAIN Survivors : res.list[i].config_id = Survivors[i]
                    /\ \A i \in DOMAIN res.list :
                          \E j \in DOMAIN Survivors : res.list[i].config_id = Survivors[j]

(* One of two enumerated candidates was dropped and the other returned. *)
C27_Witness ==
    /\ ConfigReturned
    /\ res.kind = "Ok"
    /\ Len(AfterEnumeration) = 2
    /\ Len(Survivors) = 1
    /\ req.cb.srgb # None
    /\ Len(res.list) = 1

(* C30: a request with an adaptive desired swap interval gets an error; no  *)
(* returned config has an adaptive desired swap interval; and the           *)
(* unreachable!() of the swap-interval filter is not reached, nor is that   *)
(* of make_current for a surface of a returned config.                      *)
C30_AdaptiveNeverReturned ==
    ConfigReturned
        => /\ AdaptiveRequested => res.kind = "Err"
           /\ res.kind # "panic"
           /\ \A i \in DOMAIN res.list :
                 /\ res.list[i].attribs.desired_swap_interval.kind # "AdaptiveWait"
                 /\ ~swap_interval_arg(res.list[i].attribs.desired_swap_interval).unreachable

(* An adaptive request that fails no other check, on a display that has      *)
(* configs to enumerate, was refused.                                       *)
C30_Witness ==
    /\ ChecksReached
    /\ AdaptiveRequested
    /\ ~ReturnsWithoutReason
    /\ ~FlushControlMissing
    /\ req.native.choose.configs = <<4, 2>>
    /\ res.kind = "Err"
    /\ res.err.reasons = <<"AdaptiveSwapControlNotSupported">>

----------------------------------------------------------------------------
(* Properties of the surface descriptor. *)

(* A surface has been created from an entry of the returned list. *)
SurfaceDescribed ==
    /\ ConfigReturned
    /\ res.kind = "Ok"
    /\ desc.call \in {"eglCreateWindowSurface", "eglCreatePbufferSurface"}

(* The value that follows key in the list, or None. *)
ValueOf(list, key) ==
    IF \E i \in DOMAIN list : i % 2 = 1 /\ list[i] = Attr(key)
    THEN Some(list[(CHOOSE i \in DOMAIN list : i % 2 = 1 /\ list[i] = Attr(key)) + 1])
    ELSE None

(* C25: the descriptor of a surface of a returned config holds no            *)
(* color-space key when the display lacks EGL_KHR_gl_colorspace, and with   *)
(* the extension it holds the key with sRGB for a config whose srgb is true *)
(* and linear for one whose srgb is false.                                  *)
C25_ColorspaceOnlyWithExtension ==
    (SurfaceDescribed /\ req.cb.double_buffer = None)
        => LET srgb == res.list[desc.entry].attribs.srgb IN
           IF "EGL_KHR_gl_colorspace" \in dpy.extensions
           THEN ValueOf(desc.list, "GL_COLORSPACE_KHR")
                    = Some(Attr(IF srgb THEN "GL_COLORSPACE_SRGB_KHR"
                                ELSE "GL_COLORSPACE_LINEAR_KHR"))
           ELSE ValueOf(desc.list, "GL_COLORSPACE_KHR") = None

----------------------------------------------------------------------------
(* Properties of the attribute lists. *)

(* (key, value) pairs and then the key NONE: the length is odd, the last     *)
(* element is NONE and no key before it is.                                 *)
Terminated(list) ==
    /\ Len(list) % 2 = 1
    /\ list[Len(list)] = Attr("NONE")
    /\ \A i \in 1..(Len(list) - 1) : i % 2 = 1 => list[i] # Attr("NONE")

(* C29: the list handed to eglChooseConfig, eglCreateContext,                *)
(* eglCreateWindowSurface or eglCreatePbufferSurface is pairs of key and    *)
(* value and then one NONE, which is its last element; the context list     *)
(* holds CONTEXT_FLAGS_KHR only with flags that are not zero.               *)
C29_ListsAreTerminated ==
    desc.call # "none"
        => /\ Terminated(desc.list)
           /\ desc.call = "eglCreateContext"
                 => /\ ValueOf(desc.list, "CONTEXT_FLAGS_KHR") # Some(Flags({}))
                    /\ req.arg.robustness \in {"NotRobust", "NoError"}
                          => ValueOf(desc.list, "CONTEXT_FLAGS_KHR") = None

(* A pbuffer descriptor with the color space and the size has been handed    *)
(* over: seven keys and values and the NONE.                                *)
C29_Witness ==
    /\ desc.call = "eglCreatePbufferSurface"
    /\ req.for = "surface"
    /\ Len(desc.list) = 9

----------------------------------------------------------------------------
(* Properties of the tags the binding methods return. *)

(* C24: a make_current with a surface that returns Ok, for a window and for *)
(* a pbuffer alike, leaves the context tagged PossiblyAndSurfaceBound and   *)
(* the surface bound as draw and as read surface of the calling thread; a   *)
(* make_current_surfaceless that returns Ok leaves the context tagged       *)
(* Possibly and current with no draw and no read surface.                   *)
C24_SurfaceBindIsSurfaceBound ==
    /\ last.op \in {"make_current_surface", "make_current_pbuffer"} /\ last.res = "Ok"
          => /\ tag[last.c] = "PossiblyAndSurfaceBound"
             /\ cur[last.t] = Binding(last.c, last.s, last.s)
    /\ last.op = "make_current_surfaceless" /\ last.res = "Ok"
          => /\ tag[last.c] = "Possibly"
             /\ cur[last.t] = Binding(last.c, NO_SURFACE, NO_SURFACE)

(* The SplitContext value of context c exists: the context has not been     *)
(* dropped and no call has consumed the value without having returned it.   *)
HasValue(c) == ctx_alive[c] /\ \A t \in Threads : pc[t] = "idle" \/ call[t].c # c

BindOrUnbindOps ==
    {"make_current_surface", "make_current_pbuffer", "make_current_surfaceless",
     "make_not_current"}

(* C23: with the unchecked relabelling left out, a SplitContext value        *)
(* tagged No is the current context of no thread; a bind or an unbind that  *)
(* fails returns the value with a tag other than No; and a tag becomes No   *)
(* only by a make_not_current that returns Ok.                              *)
C23_NotCurrentTagIsSound ==
    /\ [](\A c \in Contexts, t \in Threads :
            HasValue(c) /\ tag[c] = "No" => ~is_current(t, c))
    /\ [](last.op \in BindOrUnbindOps /\ last.res # "Ok"
            => tag[last.c] \in {"Possibly", "PossiblyAndSurfaceBound"})
    /\ [][ \A c \in Contexts :
            tag[c] # "No" /\ tag'[c] = "No"
              => last'.op = "make_not_current" /\ last'.res = "Ok" /\ last'.c = c ]_vars

(* A bind of a window has failed for a context that is still current from   *)
(* an earlier bind, while the other thread holds a value tagged No that it  *)
(* was sent and that is current nowhere.                                    *)
C23_Witness ==
    /\ last.op = "make_current_surface"
    /\ last.res = "ContextLost"
    /\ is_current(last.t, last.c)
    /\ tag[last.c] = "PossiblyAndSurfaceBound"
    /\ \E c \in Contexts \ {last.c} :
          /\ HasValue(c) /\ tag[c] = "No" /\ holder[c] = 2 /\ ever_ok[1]
          /\ \A t \in Threads : ~is_current(t, c)

----------------------------------------------------------------------------
(* Properties of the drop of a handle that is not bound. *)

(* C28: the drop of a Context that is not the calling thread's current       *)
(* context, and the drop of a Surface that is neither its draw nor its read *)
(* surface, leave the binding of every thread as it was, a context bound    *)
(* without surfaces included.                                               *)
C28_UnrelatedDropKeepsBinding ==
    [][ /\ \A t \in Threads, c \in Contexts :
              cur[t].ctx # c /\ Context_drop(t, c) => cur' = cur
        /\ \A t \in Threads, s \in Surfaces :
              cur[t].draw # s /\ cur[t].read # s /\ Surface_drop(t, s) => cur' = cur ]_vars

(* A context has been dropped on a thread where another context is current  *)
(* without surfaces, and that one is current still.                         *)
C28_Witness ==
    /\ last.op = "drop_context"
    /\ last.pre.ctx \notin {NO_CONTEXT, last.c}
    /\ last.pre.draw = NO_SURFACE /\ last.pre.read = NO_SURFACE
    /\ cur[last.t] = last.pre
    /\ ~ctx_alive[last.c]

----------------------------------------------------------------------------
(* Properties of the life of the display connection. *)

(* C21: no eglTerminate is ever issued; once a Display value has been       *)
(* built the native connection is initialized, whatever values have been    *)
(* built and dropped since, the last owner of a Display value included, and *)
(* no native call of another owner is refused.                              *)
C21_NeverTerminated ==
    /\ conn.terminates = 0
    /\ ~conn.refused
    /\ (\E d \in DisplayValues : owned[d].state # "none") => conn.initialized

(* The last owner of one Display value has been dropped while a Context      *)
(* holds the other Display value of the same native display.                *)
C21_Witness ==
    /\ owned[1].state = "dropped"
    /\ owned[2].state = "alive"
    /\ owned[2].Context > 0
    /\ owned[2].Arc = 0
    /\ conn.initialized

----------------------------------------------------------------------------
(* Properties of the swap. *)

(* The number a sequence of hexadecimal digits stands for. *)
RECURSIVE FromHex(_)
FromHex(h) ==
    IF h = <<>> THEN 0 ELSE FromHex(SubSeq(h, 1, Len(h) - 1)) * 16 + h[Len(h)]

(* C22: swap_buffers, and swap_buffers_with_damage once its function is      *)
(* loaded, return ContextLost without a native call when the handle is      *)
(* NO_SURFACE; on another handle they make the one native call, and when it *)
(* fails they return ContextLost for the code CONTEXT_LOST and for every    *)
(* other code an OsError whose message holds that code.                     *)
C22_SwapErrors ==
    (res.kind # "none" /\ (res.op = "swap_buffers" \/ req.loaded))
      => /\ req.surface = NO_SURFACE
               => res.err = "ContextLost" /\ res.calls = <<>>
         /\ req.surface # NO_SURFACE
               => /\ Len(res.calls) = 1
                  /\ req.ret = EGL_FALSE /\ req.err = CONTEXT_LOST
                        => res.kind = "Err" /\ res.err = "ContextLost"
                  /\ req.ret = EGL_FALSE /\ req.err # CONTEXT_LOST
                        => /\ res.kind = "Err" /\ res.err = "OsError"
                           /\ FromHex(res.msg.hex) = req.err
                  /\ req.ret # EGL_FALSE => res.kind = "Ok"

(* swap_buffers has returned ContextLost for the NO_SURFACE handle without  *)
(* a native call, which would have failed with another code.                *)
C22_Witness ==
    /\ res.kind = "Err"
    /\ res.op = "swap_buffers"
    /\ req.surface = NO_SURFACE
    /\ req.ret = EGL_FALSE /\ req.err # CONTEXT_LOST
    /\ res.err = "ContextLost"
    /\ res.calls = <<>>

====
